---- MODULE Spec2Model ----
(***************************************************************************)
(* Export pipeline of the HGAD supplier dashboard (streamlit-db-app):      *)
(* main() prepares the display table, make_excel_bytes renders it with     *)
(* xlsxwriter (_write_excel_table), make_pdf_bytes renders the formatted   *)
(* copy (_pdf_table), and main offers the downloads.                       *)
(*                                                                         *)
(* Text is modelled character by character: a string is a tuple of         *)
(* one-token characters.  Latin characters stand for themselves; an Arabic *)
(* letter is written by its Unicode letter name ("REH", "ALEF", ...), so   *)
(* that substring tests are computed on the same characters the code sees. *)
(* Numbers are integers counting thousandths (10.0 is 10000).              *)
(***************************************************************************)
EXTENDS Integers, Sequences, FiniteSets, TLC

VARIABLES df, df_display, pc, engine, wide_logo, r0, ws, table, xlsx_bytes,
          pdf, pdf_bytes, offered, csv, arg, result

vars == <<df, df_display, pc, engine, wide_logo, r0, ws, table, xlsx_bytes,
          pdf, pdf_bytes, offered, csv, arg, result>>

\* the output of make_csv_utf8; the argument and the result of a helper
\* called on its own (when make_csv_utf8 is called a second time, result
\* keeps the output of the first call)
aux == <<csv, arg, result>>

-----------------------------------------------------------------------------
(* Bounds of the model *)

MaxRows == 2

MaxCols == 2

\* the longest file name stem handed to safe_filename
MaxName == 3

\* the most rows of a table whose rows are shuffled
PermRows == 3

\* the most columns of a table laid out on the PDF page
MaxPdfCols == 13

\* the most columns of a fetched table prepared for display
DisplayCols == 4

\* the most rows the data store holds for a company and a project
FetchRows == 2

-----------------------------------------------------------------------------
(* Strings *)

\* s[1..Len(p)] = p
HasPrefix(s, p) ==
    /\ Len(s) >= Len(p)
    /\ \A k \in 1..Len(p) : s[k] = p[k]

\* Python's "kw in s" on strings
Contains(s, kw) ==
    \E o \in 0..(Len(s) - Len(kw)) :
        \A k \in 1..Len(kw) : s[o + k] = kw[k]

LowerChar(ch) ==
    CASE ch = "D" -> "d"
      [] ch = "I" -> "i"
      [] ch = "A" -> "a"
      [] ch = "T" -> "t"
      [] ch = "E" -> "e"
      [] OTHER -> ch

\* str.lower(); the upper-case letters of the model's names are D I A T E
Lower(s) == [k \in 1..Len(s) |-> LowerChar(s[k])]

Digits == {"0", "1", "2", "3", "4", "5", "6", "7", "8", "9"}

DigitVal(ch) ==
    CASE ch = "0" -> 0 [] ch = "1" -> 1 [] ch = "2" -> 2 [] ch = "3" -> 3
      [] ch = "4" -> 4 [] ch = "5" -> 5 [] ch = "6" -> 6 [] ch = "7" -> 7
      [] ch = "8" -> 8 [] ch = "9" -> 9

IsDigits(s) == Len(s) > 0 /\ \A k \in 1..Len(s) : s[k] \in Digits

RECURSIVE DigitsVal(_)
DigitsVal(s) ==
    IF Len(s) = 0 THEN 0
    ELSE 10 * DigitsVal(SubSeq(s, 1, Len(s) - 1)) + DigitVal(s[Len(s)])

\* str.replace(",", "")
StripCommas(s) == SelectSeq(s, LAMBDA ch : ch # ",")

-----------------------------------------------------------------------------
(* Cell values of a DataFrame: None/NaN/NaT, a number, a string, a         *)
(* Timestamp (n is its day number).                                        *)

Null == [t |-> "null", n |-> 0, s |-> <<>>]

Num(x) == [t |-> "num", n |-> x, s |-> <<>>]

Str(x) == [t |-> "str", n |-> 0, s |-> x]

Date(d) == [t |-> "date", n |-> d, s |-> <<>>]

\* pd.isna(val)
isna(v) == v.t = "null"

(* The text of a value.  f = "lit": the characters s; "numstr": Python's   *)
(* str() of the number n; "datestr": str() of the Timestamp n; "fmt2":     *)
(* the number n formatted with thousands separators and two decimals       *)
(* (f"{n:,.2f}"); "plain": n without separators.                           *)
Lit(x) == [f |-> "lit", s |-> x, n |-> 0]

Fmt(k, x) == [f |-> k, s |-> <<>>, n |-> x]

\* str(val)
str(v) ==
    CASE v.t = "str" -> Lit(v.s)
      [] v.t = "num" -> Fmt("numstr", v.n)
      [] v.t = "date" -> Fmt("datestr", v.n)
      [] OTHER -> Lit(<<"N", "o", "n", "e">>)

\* "" if pd.isna(val) else str(val)
sval_of(v) == IF isna(v) THEN Lit(<<>>) ELSE str(v)

\* truthiness of a string
NonEmpty(x) == ~(x.f = "lit" /\ x.s = <<>>)

HTTP == <<"h", "t", "t", "p", ":", "/", "/">>

HTTPS == <<"h", "t", "t", "p", "s", ":", "/", "/">>

\* sval.startswith(("http://", "https://")); the text of a number or of a
\* Timestamp starts with a digit or a sign
StartsWithUrlScheme(x) ==
    x.f = "lit" /\ (HasPrefix(x.s, HTTP) \/ HasPrefix(x.s, HTTPS))

-----------------------------------------------------------------------------
(* Column names and the name markers of the code *)

\* "رابط" (link), the marker tested by the renderers
LINK_MARKER == <<"REH", "ALEF", "BEH", "TAH">>

\* exclude_keywords of _write_excel_table, in source order:
\* id, raqm, tarikh, date, code, kod, bank (ar), bank, naw', type, rabit,
\* mawrid, mawad
exclude_keywords ==
    << <<"i", "d">>,
       <<"REH", "QAF", "MEEM">>,
       <<"TEH", "ALEF", "REH", "YEH", "KHAH">>,
       <<"d", "a", "t", "e">>,
       <<"c", "o", "d", "e">>,
       <<"KAF", "WAW", "DAL">>,
       <<"BEH", "NOON", "KAF">>,
       <<"b", "a", "n", "k">>,
       <<"NOON", "WAW", "AIN">>,
       <<"t", "y", "p", "e">>,
       <<"REH", "ALEF", "BEH", "TAH">>,
       <<"MEEM", "WAW", "REH", "DAL">>,
       <<"MEEM", "WAW", "ALEF", "DAL">> >>

\* desired_order of main for the financial report (11 column names)
desired_order ==
    << <<"MEEM", "WAW", "ALEF", "DAL", " ", "ALEF", "WAW", "LAM", "YEH", "HEH">>,
       <<"ALEF", "SEEN", "MEEM", " ", "ALEF", "LAM", "MEEM", "WAW", "REH", "DAL">>,
       <<"REH", "QAF", "MEEM", " ", "ALEF", "LAM", "FEH", "ALEF", "TEH", "WAW", "REH", "TEH_MARBUTA">>,
       <<"TEH", "ALEF", "REH", "YEH", "KHAH", " ", "ALEF", "LAM", "FEH", "ALEF", "TEH", "WAW", "REH", "TEH_MARBUTA">>,
       <<"ALEF", "LAM", "MEEM", "BEH", "LAM", "GHAIN">>,
       <<"KAF", "MEEM", "YEH", "HEH", " ", "ZAIN", "JEEM", "ALEF", "JEEM", " ", "MEEM", "TEH", "REH", " ", "MEEM", "REH", "BEH", "AIN">>,
       <<"KAF", "MEEM", "YEH", "HEH", " ", "ALEF", "LAM", "MEEM", "WAW", "NOON", "YEH", "WAW", "MEEM", " ", "TAH", "NOON">>,
       <<"KAF", "MEEM", "YEH", "HEH", " ", "ALEF", "KAF", "SEEN", "SEEN", "WAW", "ALEF", "REH">>,
       <<"KAF", "MEEM", "YEH", "HEH", " ", "SEEN", "TEH", "YEH", "LAM", " ", "TAH", "NOON">>,
       <<"MEEM", "JEEM", "MEEM", "WAW", "AIN", " ", "ALEF", "LAM", "KAF", "MEEM", "YEH", "TEH_MARBUTA", " ", "LAM", "KAF", "LAM", " ", "MEEM", "SHEEN", "REH", "WAW", "AIN", " ", "WAW", "MEEM", "WAW", "REH", "DAL">>,
       <<"MEEM", "JEEM", "MEEM", "WAW", "AIN", " ", "ALEF", "LAM", "MEEM", "BEH", "LAM", "GHAIN", " ", "LAM", "KAF", "LAM", " ", "MEEM", "SHEEN", "REH", "WAW", "AIN", " ", "WAW", "MEEM", "WAW", "REH", "DAL">> >>

\* "المبلغ" (amount)
COL_AMOUNT == <<"ALEF", "LAM", "MEEM", "BEH", "LAM", "GHAIN">>

\* "تاريخ الفاتورة" (invoice date), the column the fetch converts to datetime
COL_INVOICE_DATE ==
    <<"TEH", "ALEF", "REH", "YEH", "KHAH", " ", "ALEF", "LAM", "FEH", "ALEF", "TEH", "WAW", "REH", "TEH_MARBUTA">>

\* "رابط نسخة الفاتورة" (invoice copy link)
COL_INVOICE_LINK ==
    <<"REH", "ALEF", "BEH", "TAH", " ", "NOON", "SEEN", "KHAH", "TEH_MARBUTA", " ", "ALEF", "LAM", "FEH", "ALEF", "TEH", "WAW", "REH", "TEH_MARBUTA">>

\* "supplier_id"
COL_SUPPLIER_ID == <<"s", "u", "p", "p", "l", "i", "e", "r", "_", "i", "d">>

\* "Due Date"
COL_DUE_DATE == <<"D", "u", "e", " ", "D", "a", "t", "e">>

ColNames ==
    {COL_AMOUNT, COL_INVOICE_DATE, COL_INVOICE_LINK, COL_SUPPLIER_ID, COL_DUE_DATE}

-----------------------------------------------------------------------------
(* Tables.  A table is [n |-> number of rows, cols |-> sequence of         *)
(* columns]; a column is [name, dtype, vals].  dtype is the pandas dtype   *)
(* class of the column: "datetime", "numeric" or "object".                 *)

S_100 == <<"1", "0", "0">>

S_200 == <<"2", "0", "0">>

S_NOT_A_NUMBER == <<"n", "o", "t", " ", "a", " ", "n", "u", "m", "b", "e", "r">>

S_1_000 == <<"1", ",", "0", "0", "0">>

S_2_500 == <<"2", ",", "5", "0", "0">>

S_URL1 == <<"h", "t", "t", "p", "s", ":", "/", "/", "e", "x", "/", "1">>

S_URL2 == <<"h", "t", "t", "p", ":", "/", "/", "e", "x", "/", "2">>

S_ABC == <<"a", "b", "c">>

\* The value patterns a column is filled from: row i of the column holds
\* base[((i - 1) % Len(base)) + 1].
P_NUM == [dtype |-> "numeric", base |-> <<Num(10000), Null, Num(20000)>>]

P_TINY == [dtype |-> "numeric", base |-> <<Num(1), Num(-10000)>>]

P_NUMOBJ == [dtype |-> "object", base |-> <<Num(10000), Num(20000)>>]

P_STRNUM == [dtype |-> "object", base |-> <<Str(S_100), Str(S_NOT_A_NUMBER), Str(S_200)>>]

P_COMMA == [dtype |-> "object", base |-> <<Str(S_1_000), Str(S_2_500)>>]

P_URL == [dtype |-> "object", base |-> <<Str(S_URL1), Str(S_ABC)>>]

P_URL2 == [dtype |-> "object", base |-> <<Str(<<>>), Str(S_URL2), Null>>]

P_DATE == [dtype |-> "datetime", base |-> <<Date(1), Null>>]

Fill(base, n) == [i \in 1..n |-> base[((i - 1) % Len(base)) + 1]]

\* The patterns each column name is tried with.  Only the invoice-date
\* column can have the datetime dtype (pd.to_datetime in
\* fetch_financial_report); every other column keeps the dtype pandas
\* infers from the JSON rows.
PatternsOf(name) ==
    CASE name = COL_AMOUNT -> {P_NUM, P_TINY, P_NUMOBJ, P_STRNUM, P_COMMA, P_URL2}
      [] name = COL_INVOICE_DATE -> {P_DATE, P_URL}
      [] name = COL_INVOICE_LINK -> {P_URL2, P_NUM, P_STRNUM}
      [] name = COL_SUPPLIER_ID -> {P_NUM, P_URL}
      [] name = COL_DUE_DATE -> {P_TINY, P_NUM}

ColumnChoices ==
    UNION { {[name |-> nm, pat |-> pt] : pt \in PatternsOf(nm)} : nm \in ColNames }

MkCol(c, n) == [name |-> c.name, dtype |-> c.pat.dtype, vals |-> Fill(c.pat.base, n)]

NoTable == [n |-> 0, cols |-> <<>>]

\* "id" in c.lower()
IsIdColumn(name) == Contains(Lower(name), <<"i", "d">>)

AllNull(col) == \A i \in 1..Len(col.vals) : isna(col.vals[i])

\* variant: only a column named exactly "id" is dropped
DropIdColumns_exact_name(cols) == SelectSeq(cols, LAMBDA c : Lower(c.name) # <<"i", "d">>)

\* df.drop(columns=[c for c in df.columns if "id" in c.lower()])
DropIdColumns(cols) == SelectSeq(cols, LAMBDA c : ~IsIdColumn(c.name))

\* variant: no column is dropped for its values
DropAllNull_keep_all(cols) == cols

\* df_display.dropna(axis=1, how='all')
DropAllNull(cols) == SelectSeq(cols, LAMBDA c : ~AllNull(c))

HasName(cols, nm) == \E j \in 1..Len(cols) : cols[j].name = nm

ColNamed(cols, nm) == cols[CHOOSE j \in 1..Len(cols) : cols[j].name = nm]

\* ordered_cols + remaining_cols, then df_display[...]
Reorder(cols) ==
    LET ordered_cols == SelectSeq(desired_order, LAMBDA nm : HasName(cols, nm))
        InOrdered(nm) == \E k \in 1..Len(ordered_cols) : ordered_cols[k] = nm
        remaining_cols == SelectSeq(cols, LAMBDA c : ~InOrdered(c.name))
    IN  [k \in 1..Len(ordered_cols) |-> ColNamed(cols, ordered_cols[k])] \o remaining_cols

\* main, "Remove ID columns for display" through the column reorder
display_table(t) == [n |-> t.n, cols |-> Reorder(DropAllNull(DropIdColumns(t.cols)))]

-----------------------------------------------------------------------------
(* The worksheet: a function from <<row, column>> to the cell written      *)
(* there.  A cell is [kind, fmt, text, n, label]: kind is what xlsxwriter  *)
(* stores ("string", "number", "datetime", "blank", "url"), fmt the format *)
(* object it was written with ("hdr", "text", "date", "num", "link").      *)

Cell(kind, fmt, text, n) == [kind |-> kind, fmt |-> fmt, text |-> text, n |-> n, label |-> <<>>]

WsPut(w, r, c, cell) ==
    [p \in (DOMAIN w) \cup {<<r, c>>} |-> IF p = <<r, c>> THEN cell ELSE w[p]]

EmptySheet == [p \in {} |-> Cell("blank", "text", Lit(<<>>), 0)]

\* "فتح الرابط" (open the link), the display string of every link cell
LINK_LABEL == <<"FEH", "TEH", "HAH", " ", "ALEF", "LAM", "REH", "ALEF", "BEH", "TAH">>

\* "المجموع" (total)
TOTAL_LABEL == <<"ALEF", "LAM", "MEEM", "JEEM", "MEEM", "WAW", "AIN">>

\* "عدد الصفوف" (row count)
COUNT_LABEL == <<"AIN", "DAL", "DAL", " ", "ALEF", "LAM", "SAD", "FEH", "WAW", "FEH">>

\* hdr_fmt, fmt_text, fmt_date, fmt_num, fmt_link of _write_excel_table and
\* title_fmt of make_excel_bytes
formats ==
    [hdr  |-> [align |-> "right", num_format |-> "", bold |-> TRUE],
     text |-> [align |-> "right", num_format |-> "", bold |-> FALSE],
     date |-> [align |-> "right", num_format |-> "yyyy-mm-dd", bold |-> FALSE],
     num  |-> [align |-> "right", num_format |-> "#,##0.00", bold |-> FALSE],
     link |-> [align |-> "right", num_format |-> "", bold |-> FALSE],
     title |-> [align |-> "center", num_format |-> "", bold |-> TRUE]]

\* ws.merge_range(cur_row, 0, cur_row, ncols - 1, title_line, title_fmt) with
\* ncols = max(1, len(df.columns)): xlsxwriter refuses to merge a single
\* cell (it warns and writes nothing); n is the last column of the range
merge_range(w, row, ncols, title_line) ==
    IF ncols - 1 > 0
    THEN WsPut(w, row, 0, Cell("merged", "title", Lit(title_line), ncols - 1))
    ELSE w

\* variant: the worksheet converts strings that read as numbers
write_str_strings_to_numbers(x, fmt) ==
    IF ~NonEmpty(x) THEN Cell("blank", fmt, Lit(<<>>), 0)
    ELSE IF x.f = "lit" /\ IsDigits(x.s) THEN Cell("number", fmt, Lit(<<>>), 1000 * DigitsVal(x.s))
    ELSE Cell("string", fmt, x, 0)

\* ws.write(r, c, <str>, fmt): xlsxwriter stores a blank for the empty
\* string and a string otherwise
write_str(x, fmt) ==
    IF NonEmpty(x) THEN Cell("string", fmt, x, 0) ELSE Cell("blank", fmt, Lit(<<>>), 0)

\* ws.write(r, c, <number>, fmt) and ws.write_number
write_number(x, fmt) == Cell("number", fmt, Lit(<<>>), x)

\* ws.write_url(r, c, sval, fmt_link, string="فتح الرابط")
write_url(x) ==
    [kind |-> "url", fmt |-> "link", text |-> x, n |-> 0, label |-> LINK_LABEL]

\* variant: the Timestamp goes through ws.write as its text
write_datetime_as_text(val) == Cell("string", "text", str(val), 0)

\* ws.write_datetime(r, c, pd.to_datetime(val), fmt_date)
write_datetime(val) == Cell("datetime", "date", Lit(<<>>), val.n)

\* variant: only the https scheme is recognised
is_link_cell_https_only(colname, sval) ==
    (sval.f = "lit" /\ HasPrefix(sval.s, HTTPS)) \/ (Contains(colname, LINK_MARKER) /\ NonEmpty(sval))

\* the test of the body loop that sends a cell to write_url
is_link_cell(colname, sval) ==
    StartsWithUrlScheme(sval) \/ (Contains(colname, LINK_MARKER) /\ NonEmpty(sval))

\* ws.write_blank(r, c, None, fmt_text)
write_blank == Cell("blank", "text", Lit(<<>>), 0)

\* variant: the column is taken for a link column or not by its first row
body_cell_by_first_row(col, i) ==
    LET val == col.vals[i]
        sval == sval_of(val)
    IN  IF is_link_cell(col.name, sval_of(col.vals[1]))
        THEN write_url(sval)
        ELSE IF col.dtype = "datetime"
        THEN IF ~isna(val) THEN write_datetime(val) ELSE write_blank
        ELSE IF col.dtype = "numeric"
        THEN IF ~isna(val) THEN write_number(val.n, "num") ELSE write_blank
        ELSE write_str(sval, "text")

\* One cell of the body loop of _write_excel_table: the cell it writes.
body_cell(col, i) ==
    LET val == col.vals[i]
        sval == sval_of(val)
    IN  IF is_link_cell(col.name, sval)
        THEN write_url(sval)
        ELSE IF col.dtype = "datetime"
        THEN IF ~isna(val) THEN write_datetime(val) ELSE write_blank
        ELSE IF col.dtype = "numeric"
        THEN IF ~isna(val) THEN write_number(val.n, "num") ELSE write_blank
        ELSE write_str(sval, "text")

\* the cells the body loop writes in a typed form, with write_url,
\* write_datetime or write_number: the calls that can raise
is_typed_write(col, i) == body_cell(col, i).kind \in {"url", "datetime", "number"}

\* the header row
RECURSIVE write_headers(_, _, _, _)
write_headers(w, cols, r, j) ==
    IF j > Len(cols) THEN w
    ELSE write_headers(WsPut(w, r, j - 1, Cell("string", "hdr", Lit(cols[j].name), 0)),
                       cols, r, j + 1)

\* variant: the data rows are laid out from the bottom up
RECURSIVE write_body_bottom_up(_, _, _, _, _)
write_body_bottom_up(w, t, r, k, f) ==
    LET m == Len(t.cols)
        i == k \div m
        j == k % m
    IN  IF m = 0 \/ k >= t.n * m THEN [ws |-> w, raised |-> FALSE]
        ELSE IF k = f THEN [ws |-> w, raised |-> TRUE]
        ELSE write_body_bottom_up(WsPut(w, r + t.n - i, j, body_cell(t.cols[j + 1], i + 1)),
                                  t, r, k + 1, f)

\* The body loop, row by row and column by column, from the k-th cell on
\* (k counts from 0).  f is the cell whose typed write raises (f = -1: no
\* write raises); the loop has no handler, so it ends there.
RECURSIVE write_body(_, _, _, _, _)
write_body(w, t, r, k, f) ==
    LET m == Len(t.cols)
        i == k \div m
        j == k % m
    IN  IF m = 0 \/ k >= t.n * m THEN [ws |-> w, raised |-> FALSE]
        ELSE IF k = f THEN [ws |-> w, raised |-> TRUE]
        ELSE write_body(WsPut(w, r + 1 + i, j, body_cell(t.cols[j + 1], i + 1)),
                        t, r, k + 1, f)

\* pd.to_numeric(.., errors='coerce') on one value of a column:
\* nan = TRUE for NaN
NaN == [nan |-> TRUE, n |-> 0]

\* the int64 view of NaT (the smallest int64; the smallest integer of the
\* model checker stands for it)
INaT == -2147483647

to_numeric(dtype, v) ==
    IF dtype = "datetime"
    THEN [nan |-> FALSE, n |-> IF isna(v) THEN INaT ELSE v.n]
    ELSE CASE v.t = "num" -> [nan |-> FALSE, n |-> v.n]
           [] v.t = "str" -> IF IsDigits(v.s)
                                THEN [nan |-> FALSE, n |-> 1000 * DigitsVal(v.s)]
                                ELSE NaN
           [] OTHER -> NaN

Abs(x) == IF x < 0 THEN -x ELSE x

\* A float keeps a fixed number of significant bits (53 for float64); the
\* numbers of the model are integers below 2^27, of which the model keeps
\* 24 bits, so that the rounding of a sum happens within them.
SigLimit == 16777216

\* the distance between neighbouring floats at magnitude a
Ulp(a) ==
    IF a < SigLimit THEN 1
    ELSE IF a < 2 * SigLimit THEN 2
    ELSE IF a < 4 * SigLimit THEN 4
    ELSE 8

\* the float nearest to x, ties to the even significand
round_float(x) ==
    LET u == Ulp(Abs(x))
        q == Abs(x) \div u
        r == Abs(x) % u
        m == IF 2 * r < u THEN q
             ELSE IF 2 * r > u THEN q + 1
             ELSE IF q % 2 = 0 THEN q ELSE q + 1
    IN  (IF x < 0 THEN -1 ELSE 1) * m * u

\* variant: addition without rounding
float_add_exact(a, b) == a + b

\* a + b on float64
float_add(a, b) == round_float(a + b)

\* numeric_col.sum(): the values are added from the first to the k-th, NaN
\* skipped; an int64 column (the view of a datetime column) is added
\* without rounding
RECURSIVE series_sum(_, _, _)
series_sum(xs, k, is_float) ==
    IF k = 0 THEN 0
    ELSE LET x == IF xs[k].nan THEN 0 ELSE xs[k].n
         IN  IF is_float THEN float_add(series_sum(xs, k - 1, is_float), x)
             ELSE series_sum(xs, k - 1, is_float) + x

\* variant: the keywords are matched against the name as written
should_exclude_case_sensitive(name) ==
    \E k \in 1..Len(exclude_keywords) : Contains(name, exclude_keywords[k])

\* any(keyword in col_lower for keyword in exclude_keywords)
should_exclude(name) ==
    \E k \in 1..Len(exclude_keywords) : Contains(Lower(name), exclude_keywords[k])

\* variant: the threshold itself counts as exceeding
exceeds_threshold_inclusive(s) == Abs(s) >= 1

\* abs(s) > 0.001, in thousandths
exceeds_threshold(s) == Abs(s) > 1

\* the totals cell of one column (j > 0)
totals_cell(col) ==
    IF ~should_exclude(col.name)
    THEN LET numeric_col == [i \in 1..Len(col.vals) |-> to_numeric(col.dtype, col.vals[i])]
             s == series_sum(numeric_col, Len(numeric_col), col.dtype # "datetime")
         IN  IF \E i \in 1..Len(numeric_col) : ~numeric_col[i].nan
             THEN IF exceeds_threshold(s)
                  THEN write_number(s, "num")
                  ELSE write_str(Lit(<<>>), "text")
             ELSE write_str(Lit(<<>>), "text")
    ELSE write_str(Lit(<<>>), "text")

RECURSIVE write_totals(_, _, _, _)
write_totals(w, cols, r, j) ==
    IF j > Len(cols) THEN w
    ELSE write_totals(
            WsPut(w, r, j - 1,
                  IF j = 1 THEN Cell("string", "hdr", Lit(TOTAL_LABEL), 0)
                  ELSE totals_cell(cols[j])),
            cols, r, j + 1)

\* variant: the header row is counted as a row
count_cell_counting_header(j, total_rows) ==
    IF j = 1 THEN write_number(1000 * (total_rows + 1), "text") ELSE write_str(Lit(<<>>), "text")

\* the count row: the label, then (only when there is a second column) the
\* number of rows and blanks
count_cell(j, total_rows) ==
    IF j = 1 THEN write_number(1000 * total_rows, "text") ELSE write_str(Lit(<<>>), "text")

RECURSIVE write_count(_, _, _, _)
write_count(w, t, r, j) ==
    IF j >= Len(t.cols) THEN w
    ELSE write_count(
            WsPut(w, r, j,
                  IF j = 0 THEN Cell("string", "hdr", Lit(COUNT_LABEL), 0)
                  ELSE count_cell(j, t.n)),
            t, r, j + 1)

-----------------------------------------------------------------------------
(* len() of the strings str(), f"{x:,.2f}" and astype(str) produce.        *)

\* the number of decimal digits of a natural number
RECURSIVE NatLen(_)
NatLen(x) == IF x < 10 THEN 1 ELSE 1 + NatLen(x \div 10)

\* len(repr(x)) of the float with x thousandths: "10.0", "-2.5", "0.001"
FloatLen(x) ==
    (IF x < 0 THEN 1 ELSE 0) + NatLen(Abs(x) \div 1000) + 1
        + (IF Abs(x) % 1000 = 0 THEN 1
           ELSE IF Abs(x) % 100 = 0 THEN 1
           ELSE IF Abs(x) % 10 = 0 THEN 2 ELSE 3)

\* len(f"{x:,.2f}") when the third decimal of x is 0
Fmt2Len(x) ==
    (IF x < 0 THEN 1 ELSE 0) + NatLen(Abs(x) \div 1000)
        + ((NatLen(Abs(x) \div 1000) - 1) \div 3) + 3

\* len() of a text
TextLen(x) ==
    CASE x.f \in {"lit", "shaped"} -> Len(x.s)
      [] x.f = "numstr" -> FloatLen(x.n)
      [] x.f = "datestr" -> 19
      [] x.f = "fmt2" -> Fmt2Len(x.n)
      [] x.f = "plain" -> IF x.n % 1000 = 0 THEN FloatLen(x.n) - 2 ELSE FloatLen(x.n)

\* len() of df[c].astype(str) for one value: "nan" and "NaT" for the null
\* of a numeric and of a datetime column, "None" for the null of an object
\* column, the date alone for a Timestamp (every Timestamp of the model is
\* at midnight)
astype_str_len(dtype, v) ==
    CASE v.t = "null" -> IF dtype = "object" THEN 4 ELSE 3
      [] v.t = "date" -> 10
      [] OTHER -> TextLen(str(v))

-----------------------------------------------------------------------------
(* format_numbers_for_display (utils/data_helpers.py), which main applies  *)
(* to the display table before the PDF is rendered.                        *)

\* _normalize_name: whitespace, tatweel and the zero-width marks removed
normalize_name(name) ==
    SelectSeq(name, LAMBDA ch : ch \notin {" ", "TATWEEL", "ZWNJ", "ZWJ", "LRM", "RLM"})

\* "شيك" (cheque)
CHEQUE_MARKER == <<"SHEEN", "YEH", "KAF">>

\* "رقم" (number)
NUMBER_MARKER == <<"REH", "QAF", "MEEM">>

\* "فاتورة" (invoice)
INVOICE_MARKER == <<"FEH", "ALEF", "TEH", "WAW", "REH", "TEH_MARBUTA">>

force_plain(name, requested) ==
    LET c_norm == normalize_name(name)
    IN  \/ c_norm \in requested
        \/ Contains(c_norm, CHEQUE_MARKER)
        \/ (Contains(c_norm, NUMBER_MARKER) /\ Contains(c_norm, INVOICE_MARKER))

\* float(s.replace(",", "")) on the text of a value: ok = FALSE when float()
\* raises ValueError
float_of(x) ==
    CASE x.f = "numstr" -> [ok |-> TRUE, n |-> x.n]
      [] x.f = "lit" /\ IsDigits(StripCommas(x.s)) ->
            [ok |-> TRUE, n |-> 1000 * DigitsVal(StripCommas(x.s))]
      [] OTHER -> [ok |-> FALSE, n |-> 0]

\* s.strip().endswith("%")
EndsWithPercent(x) == x.f = "lit" /\ Len(x.s) > 0 /\ x.s[Len(x.s)] = "%"

plain_number_no_commas(v) ==
    IF isna(v) THEN Lit(<<>>)
    ELSE IF float_of(str(v)).ok THEN Fmt("plain", float_of(str(v)).n)
    ELSE str(v)

\* the lambda of the numeric branch and _fmt_cell of the other branch
fmt_cell(dtype, v) ==
    IF isna(v) THEN Lit(<<>>)
    ELSE IF dtype = "numeric" THEN Fmt("fmt2", v.n)
    ELSE IF EndsWithPercent(str(v)) THEN str(v)
    ELSE IF float_of(str(v)).ok THEN Fmt("fmt2", float_of(str(v)).n)
    ELSE str(v)

\* one cell of the formatted copy
format_cell(col, requested, i) ==
    IF force_plain(col.name, requested)
    THEN plain_number_no_commas(col.vals[i])
    ELSE fmt_cell(col.dtype, col.vals[i])

\* one column of the formatted copy: every cell becomes a string (lens:
\* the lengths astype(str) gives for the column, here of the strings)
format_column(col, requested) ==
    [name |-> col.name,
     texts |-> [i \in 1..Len(col.vals) |-> format_cell(col, requested, i)],
     lens |-> [i \in 1..Len(col.vals) |-> TextLen(format_cell(col, requested, i))]]

format_numbers_for_display(t, requested) ==
    [n |-> t.n, cols |-> [j \in 1..Len(t.cols) |-> format_column(t.cols[j], requested)]]

-----------------------------------------------------------------------------
(* make_pdf_bytes: _pdf_header_elements (the title) and _pdf_table (the    *)
(* header row and one row of cells per data row).  A paragraph is          *)
(* [text, shown, align]: text is the string in logical order, shown the    *)
(* string handed to Paragraph, align the alignment of its style.  A cell   *)
(* is a link paragraph (kind "link", href, fixed caption) or a text        *)
(* paragraph (kind "para").                                                *)

\* the letters of the range U+0600-U+06FF (_AR_RE) that occur in the
\* strings of the model
ArabicLetters ==
    {"AIN", "ALEF", "BEH", "DAL", "FEH", "GHAIN", "HAH", "HEH", "JEEM", "KAF",
     "KHAH", "LAM", "MEEM", "NOON", "QAF", "REH", "SAD", "SEEN", "SHEEN", "TAH",
     "TATWEEL", "TEH", "TEH_MARBUTA", "WAW", "YEH", "ZAIN"}

\* bool(_AR_RE.search(str(s or ""))); the text of a number or of a
\* Timestamp has no Arabic letter
looks_arabic(x) == x.f = "lit" /\ \E k \in 1..Len(x.s) : x.s[k] \in ArabicLetters

Reverse(s) == [k \in 1..Len(s) |-> s[Len(s) + 1 - k]]

\* get_display(arabic_reshaper.reshape(str(s))): the letters take their
\* joined forms and the run is put in visual order (f = "shaped"); a
\* string without Arabic letters comes back as it was
shape_arabic(x) ==
    IF looks_arabic(x) THEN [f |-> "shaped", s |-> Reverse(x.s), n |-> 0] ELSE x

\* "الشركة: HGAD", a title as compose_export_title builds it
TITLE_LINE == <<"ALEF", "LAM", "SHEEN", "REH", "KAF", "TEH_MARBUTA", ":", " ", "H", "G", "A", "D">>

S_MARKUP == <<"<", "b", ">">>

\* Paragraph(text, style) parses its text as markup and raises ValueError
\* on a tag that is never closed
paragraph_raises(x) ==
    /\ x.f \in {"lit", "shaped"}
    /\ Contains(x.s, S_MARKUP)
    /\ ~Contains(x.s, <<"<", "/", "b", ">">>)

\* sval = "" if pd.isna(r[c]) else str(r[c]), for every cell of a table,
\* and the lengths of df[c].astype(str)
svals(t) ==
    [n |-> t.n,
     cols |-> [j \in 1..Len(t.cols) |->
                 [name |-> t.cols[j].name,
                  texts |-> [i \in 1..t.n |-> sval_of(t.cols[j].vals[i])],
                  lens |-> [i \in 1..t.n |->
                              astype_str_len(t.cols[j].dtype, t.cols[j].vals[i])]]]]

\* Paragraph(shape_arabic(c) if looks_arabic(c) else str(c), hdr_style)
pdf_header(name) ==
    [text |-> Lit(name),
     shown |-> IF looks_arabic(Lit(name)) THEN shape_arabic(Lit(name)) ELSE Lit(name),
     align |-> "center"]

pdf_cell(colname, sval) ==
    IF is_link_cell(colname, sval)
    THEN [kind |-> "link", href |-> sval, text |-> Lit(LINK_LABEL),
          shown |-> shape_arabic(Lit(LINK_LABEL)), align |-> "right"]
    ELSE [kind |-> "para", href |-> Lit(<<>>), text |-> sval,
          shown |-> IF looks_arabic(sval) THEN shape_arabic(sval) ELSE sval,
          align |-> IF looks_arabic(sval) THEN "right" ELSE "left"]

pdf_table(ft) ==
    [headers |-> [j \in 1..Len(ft.cols) |-> pdf_header(ft.cols[j].name)],
     rows |-> [i \in 1..ft.n |->
                 [j \in 1..Len(ft.cols) |-> pdf_cell(ft.cols[j].name, ft.cols[j].texts[i])]]]

\* register_arabic_font: the name of the font file found and registered,
\* "Helvetica" otherwise
font_name(arabic_ok) == IF arabic_ok THEN "arabic" ELSE "Helvetica"

\* _pdf_header_elements: "if arabic_ok: title_line = shape_arabic(title_line)"
pdf_title(title_line, arabic_ok) ==
    [text |-> Lit(title_line),
     shown |-> IF arabic_ok THEN shape_arabic(Lit(title_line)) ELSE Lit(title_line),
     align |-> "center"]

\* Lengths on the page are floats.  The model counts them in units of
\* 1/2560 point (Pt(x) is x tenths of a point) and keeps PdfSigBits
\* significant bits of a result where float64 keeps 53, so that the
\* products stay within the integers of the model checker; the rounding is
\* to the nearest float, ties to the even significand.
Pt(tenths) == 256 * tenths

PdfSigBits == 12

RECURSIVE Pow2(_)
Pow2(k) == IF k = 0 THEN 1 ELSE 2 * Pow2(k - 1)

\* the position of the leading bit of x >= 1
RECURSIVE Log2(_)
Log2(x) == IF x < 2 THEN 0 ELSE 1 + Log2(x \div 2)

\* num / den as an integer, to the nearest, ties to even
RoundHalfEven(num, den) ==
    LET q == num \div den
        r == num % den
    IN  IF 2 * r < den THEN q
        ELSE IF 2 * r > den THEN q + 1
        ELSE IF q % 2 = 0 THEN q ELSE q + 1

\* the float nearest to num / den (num >= 0, den > 0)
pdf_float(num, den) ==
    LET q == num \div den
    IN  IF q < Pow2(PdfSigBits) THEN RoundHalfEven(num, den)
        ELSE LET u == Pow2(Log2(q) - (PdfSigBits - 1))
             IN  u * RoundHalfEven(num, den * u)

\* sum(col_widths): the widths added from the first to the k-th
RECURSIVE pdf_sum(_, _)
pdf_sum(widths, k) ==
    IF k = 0 THEN 0 ELSE pdf_float(pdf_sum(widths, k - 1) + widths[k], 1)

\* page[0] - left - right for landscape A4 and margins of 14 points each:
\* 813.89 points, as a float of the model
AVAIL_WIDTH == Pt(8138)

\* variant: the tier of 9 to 11 columns left out
density_two_tiers(n_cols) ==
    IF n_cols >= 12 THEN [max_col_width |-> Pt(1100), base_font |-> 70]
    ELSE [max_col_width |-> Pt(1500), base_font |-> 80]

\* make_pdf_bytes: the cap of a column width and the font size (in tenths
\* of a point) by the number of columns
density(n_cols) ==
    IF n_cols >= 12 THEN [max_col_width |-> Pt(1100), base_font |-> 70]
    ELSE IF n_cols >= 9 THEN [max_col_width |-> Pt(1250), base_font |-> 75]
    ELSE [max_col_width |-> Pt(1500), base_font |-> 80]

Max(a, b) == IF a >= b THEN a ELSE b

Min(a, b) == IF a <= b THEN a ELSE b

\* max(len(str(c)), df[c].astype(str).map(len).max()): the maximum of an
\* empty column is NaN, which max() passes over
max_len(col) ==
    LET Longest[i \in 0..Len(col.lens)] ==
            IF i = 0 THEN Len(col.name) ELSE Max(Longest[i - 1], col.lens[i])
    IN  Longest[Len(col.lens)]

\* min(max_len * 6.4, max_col_width)
col_width(col, max_col_width) == Min(max_len(col) * Pt(64), max_col_width)

\* avail_width / total as a float: the significand m and the exponent k of
\* m / 2^k
RECURSIVE factor_from(_, _, _)
factor_from(avail, total, k) ==
    IF 2 * avail > total \/ k >= 16
    THEN [m |-> RoundHalfEven((avail \div 256) * Pow2(k), total \div 256), k |-> k]
    ELSE factor_from(2 * avail, total, k + 1)

\* variant: the widths above the even share are cut down to it
scale_widths_clipped(col_widths, avail_width) ==
    LET total == pdf_sum(col_widths, Len(col_widths))
    IN  IF total > avail_width
        THEN [j \in 1..Len(col_widths) |-> Min(col_widths[j], avail_width \div Len(col_widths))]
        ELSE col_widths

\* "if total > avail_width: factor = avail_width / total;
\*  col_widths = [w * factor for w in col_widths]"
scale_widths(col_widths, avail_width) ==
    LET total == pdf_sum(col_widths, Len(col_widths))
        factor == factor_from(avail_width, total, PdfSigBits)
    IN  IF total > avail_width
        THEN [j \in 1..Len(col_widths) |-> pdf_float(col_widths[j] * factor.m, Pow2(factor.k))]
        ELSE col_widths

NoPdf == [font |-> "", title |-> [text |-> Lit(<<>>), shown |-> Lit(<<>>), align |-> ""],
          headers |-> <<>>, rows |-> <<>>, font_size |-> 0, max_col_width |-> 0,
          col_widths |-> <<>>, colWidths |-> <<>>]

\* make_pdf_bytes on a table of strings.  raised: Table(rows, ...) raises
\* ValueError for a table without columns, Paragraph for a text it cannot
\* parse; neither is handled.  col_widths are the estimated widths,
\* colWidths the widths handed to Table.
make_pdf_bytes(ft, title_line, arabic_ok) ==
    LET tbl == pdf_table(ft)
        tier == density(Len(ft.cols))
        col_widths == [j \in 1..Len(ft.cols) |-> col_width(ft.cols[j], tier.max_col_width)]
    IN  [raised |-> \/ Len(ft.cols) = 0
                    \/ paragraph_raises(pdf_title(title_line, arabic_ok).shown)
                    \/ \E j \in 1..Len(ft.cols) :
                          \/ paragraph_raises(tbl.headers[j].shown)
                          \/ \E i \in 1..ft.n :
                                tbl.rows[i][j].kind = "para" /\ paragraph_raises(tbl.rows[i][j].shown),
         pdf |-> [font |-> font_name(arabic_ok), title |-> pdf_title(title_line, arabic_ok),
                  headers |-> tbl.headers, rows |-> tbl.rows,
                  font_size |-> tier.base_font, max_col_width |-> tier.max_col_width,
                  col_widths |-> col_widths,
                  colWidths |-> scale_widths(col_widths, AVAIL_WIDTH)]]

-----------------------------------------------------------------------------
(* make_csv_utf8: df.to_csv(index=False) and the utf-8-sig encoding.  The  *)
(* output is a sequence of characters; "BOM" is the byte-order mark.       *)

DigitSeq == <<"0", "1", "2", "3", "4", "5", "6", "7", "8", "9">>

\* the decimal digits of a natural number
RECURSIVE NatChars(_)
NatChars(x) ==
    IF x < 10 THEN <<DigitSeq[x + 1]>>
    ELSE NatChars(x \div 10) \o <<DigitSeq[(x % 10) + 1]>>

\* the digits after the point of a float with f thousandths: trailing
\* zeros dropped, one digit at least
FracChars(f) ==
    IF f % 1000 = 0 THEN <<"0">>
    ELSE IF f % 100 = 0 THEN <<DigitSeq[(f \div 100) + 1]>>
    ELSE IF f % 10 = 0 THEN <<DigitSeq[(f \div 100) + 1], DigitSeq[((f \div 10) % 10) + 1]>>
    ELSE <<DigitSeq[(f \div 100) + 1], DigitSeq[((f \div 10) % 10) + 1], DigitSeq[(f % 10) + 1]>>

\* repr of the float with x thousandths: "10.0", "-10.0", "0.001"
FloatChars(x) ==
    (IF x < 0 THEN <<"-">> ELSE <<>>)
        \o NatChars(Abs(x) \div 1000) \o <<".">> \o FracChars(Abs(x) % 1000)

\* the day d of the model as a date: "2024-01-0d"
DateChars(d) == <<"2", "0", "2", "4", "-", "0", "1", "-", "0", DigitSeq[d + 1]>>

\* the text to_csv writes for a value: na_rep "" for a null, the string
\* itself, the repr of a float, the date of a Timestamp (a datetime column
\* whose values all lie at midnight is written without the time of day)
csv_text(v) ==
    CASE v.t = "null" -> <<>>
      [] v.t = "str" -> v.s
      [] v.t = "num" -> FloatChars(v.n)
      [] v.t = "date" -> DateChars(v.n)

\* csv.QUOTE_MINIMAL: a field is quoted when it holds the delimiter, the
\* quote character or the line terminator
needs_quote(s) == \E k \in 1..Len(s) : s[k] \in {",", "\"", "\n"}

RECURSIVE double_quotes(_)
double_quotes(s) ==
    IF Len(s) = 0 THEN <<>>
    ELSE (IF Head(s) = "\"" THEN <<"\"", "\"">> ELSE <<Head(s)>>) \o double_quotes(Tail(s))

\* variant: the quote characters inside a quoted field are not doubled
csv_field_quotes_not_doubled(s) ==
    IF needs_quote(s) THEN <<"\"">> \o s \o <<"\"">> ELSE s

csv_field(s) ==
    IF needs_quote(s) THEN <<"\"">> \o double_quotes(s) \o <<"\"">> ELSE s

RECURSIVE csv_join(_)
csv_join(fields) ==
    IF Len(fields) = 0 THEN <<>>
    ELSE IF Len(fields) = 1 THEN csv_field(fields[1])
    ELSE csv_field(fields[1]) \o <<",">> \o csv_join(Tail(fields))

\* one line: a record whose only field is empty is written as "" so that
\* the line is not blank
csv_record(fields) ==
    (IF Len(fields) = 1 /\ fields[1] = <<>> THEN <<"\"", "\"">> ELSE csv_join(fields))
        \o <<"\n">>

RECURSIVE csv_rows(_, _)
csv_rows(t, i) ==
    IF i > t.n THEN <<>>
    ELSE csv_record([j \in 1..Len(t.cols) |-> csv_text(t.cols[j].vals[i])]) \o csv_rows(t, i + 1)

\* df.to_csv(index=False): the header line, then one line per row
to_csv(t) ==
    csv_record([j \in 1..Len(t.cols) |-> t.cols[j].name]) \o csv_rows(t, 1)

\* variant: the string to_csv returns already starts with a mark
make_csv_utf8_two_marks(t) == <<"BOM", "BOM">> \o to_csv(t)

\* to_csv without a path returns a str (its encoding argument is not
\* used); .encode("utf-8-sig") puts the mark in front
make_csv_utf8(t) == <<"BOM">> \o to_csv(t)

-----
(* The state machine.  pc is the position in main's display and export     *)
(* stage:                                                                  *)
(*   "display"  the filtered, non-empty df is about to be displayed        *)
(*   "excel"    make_excel_bytes is called                                 *)
(*   "body", "totals", "count", "table"  inside _write_excel_table         *)
(*   "offer_xlsx"  make_excel_bytes has returned                           *)
(*   "pdf"      format_numbers_for_display and make_pdf_bytes              *)
(*   "done"     main returned                                              *)
(*   "aborted"  an exception of the body loop left main                    *)
(*   "pdf_raised"  an exception of make_pdf_bytes left main                *)

Engines == {"xlsxwriter", "openpyxl", "none"}

NoRange == [first_row |-> -1, first_col |-> -1, last_row |-> -1, last_col |-> -1,
            freeze_row |-> -1]

\* The table that reaches the display stage: 1..MaxCols columns with
\* distinct names, at least one of which is kept for display when there
\* are rows.  The fetched table has rows (main returns on df.empty), but
\* main's own filters on the raw material and the supplier name come after
\* that test and can leave none.
Init ==
    /\ \E n \in 0..MaxRows, k \in 1..MaxCols :
         \E cs \in [1..k -> ColumnChoices] :
            /\ \A a, b \in 1..k : a # b => cs[a].name # cs[b].name
            /\ df = [n |-> n, cols |-> [j \in 1..k |-> MkCol(cs[j], n)]]
    /\ df.n > 0 => Len(display_table(df).cols) >= 1
    /\ df_display = NoTable
    /\ pc = "display"
    /\ engine = "unset"
    /\ wide_logo = FALSE
    /\ r0 = -1
    /\ ws = EmptySheet
    /\ table = NoRange
    /\ xlsx_bytes = "unset"
    /\ pdf = NoPdf
    /\ pdf_bytes = "unset"
    /\ offered = {}
    /\ csv = <<>>
    /\ arg = <<>>
    /\ result = <<>>

\* main: drop the id columns, drop the all-null columns, reorder
PrepareDisplay ==
    /\ pc = "display"
    /\ df_display' = display_table(df)
    /\ pc' = "excel"
    /\ UNCHANGED <<df, engine, wide_logo, r0, ws, table, xlsx_bytes, pdf, pdf_bytes, offered>>
    /\ UNCHANGED aux

\* make_excel_bytes when _pick_excel_engine finds neither xlsxwriter nor
\* openpyxl: returns None
ExcelUnavailable ==
    /\ pc = "excel"
    /\ engine' = "none"
    /\ xlsx_bytes' = "None"
    /\ pc' = "offer_xlsx"
    /\ UNCHANGED <<df, df_display, wide_logo, r0, ws, table, pdf, pdf_bytes, offered>>
    /\ UNCHANGED aux

\* make_excel_bytes with only openpyxl: df.to_excel, no formatted table
ExcelFallback ==
    /\ pc = "excel"
    /\ engine' = "openpyxl"
    /\ xlsx_bytes' = "bytes"
    /\ pc' = "offer_xlsx"
    /\ UNCHANGED <<df, df_display, wide_logo, r0, ws, table, pdf, pdf_bytes, offered>>
    /\ UNCHANGED aux

\* make_excel_bytes with xlsxwriter: the logo row (when a wide logo file
\* exists), the title row, one blank row; then _write_excel_table writes
\* the header row at r0
ExcelOpen ==
    /\ pc = "excel"
    /\ engine' = "xlsxwriter"
    /\ \E logo \in BOOLEAN :
         LET cur_row == IF logo THEN 1 ELSE 0
             ncols == IF Len(df_display.cols) > 1 THEN Len(df_display.cols) ELSE 1
         IN  /\ wide_logo' = logo
             /\ r0' = cur_row + 2
             /\ ws' = write_headers(merge_range(EmptySheet, cur_row, ncols, TITLE_LINE),
                                    df_display.cols, cur_row + 2, 1)
    /\ pc' = "body"
    /\ UNCHANGED <<df, df_display, table, xlsx_bytes, pdf, pdf_bytes, offered>>
    /\ UNCHANGED aux

\* the body loop.  Any one of its typed writes may raise; the exception
\* leaves _write_excel_table, make_excel_bytes and main.
WriteBody ==
    /\ pc = "body"
    /\ \E f \in -1..(df_display.n * Len(df_display.cols) - 1) :
         /\ f >= 0 => is_typed_write(df_display.cols[(f % Len(df_display.cols)) + 1],
                                     (f \div Len(df_display.cols)) + 1)
         /\ LET res == write_body(ws, df_display, r0, 0, f)
            IN  /\ ws' = res.ws
                /\ pc' = IF res.raised THEN "aborted" ELSE "totals"
    /\ UNCHANGED <<df, df_display, engine, wide_logo, r0, table, xlsx_bytes, pdf, pdf_bytes, offered>>
    /\ UNCHANGED aux

WriteTotals ==
    /\ pc = "totals"
    /\ ws' = write_totals(ws, df_display.cols, r0 + 1 + df_display.n, 1)
    /\ pc' = "count"
    /\ UNCHANGED <<df, df_display, engine, wide_logo, r0, table, xlsx_bytes, pdf, pdf_bytes, offered>>
    /\ UNCHANGED aux

WriteCount ==
    /\ pc = "count"
    /\ ws' = write_count(ws, df_display, r0 + 2 + df_display.n, 0)
    /\ pc' = "table"
    /\ UNCHANGED <<df, df_display, engine, wide_logo, r0, table, xlsx_bytes, pdf, pdf_bytes, offered>>
    /\ UNCHANGED aux

\* ws.add_table(r0, c0, r1, c1, ...): xlsxwriter registers no table for a
\* range that leaves the sheet (c1 = -1 when there is no column)
add_table(first_row, first_col, last_row, last_col) ==
    IF last_col < first_col THEN NoRange
    ELSE [first_row |-> first_row, first_col |-> first_col,
          last_row |-> last_row, last_col |-> last_col, freeze_row |-> -1]

\* ws.add_table, ws.freeze_panes; make_excel_bytes returns the buffer
AddTable ==
    /\ pc = "table"
    /\ table' = [add_table(r0, 0, r0 + 2 + df_display.n, Len(df_display.cols) - 1)
                    EXCEPT !.freeze_row = r0 + 1]
    /\ xlsx_bytes' = "bytes"
    /\ pc' = "offer_xlsx"
    /\ UNCHANGED <<df, df_display, engine, wide_logo, r0, ws, pdf, pdf_bytes, offered>>
    /\ UNCHANGED aux

\* variant: the button is shown whatever make_excel_bytes returned
xlsx_offered_always(b) == TRUE

\* "if xlsx_bytes:"
xlsx_offered(b) == b # "None"

\* main, col1: the Excel download button
OfferExcel ==
    /\ pc = "offer_xlsx"
    /\ offered' = IF xlsx_offered(xlsx_bytes) THEN offered \cup {"xlsx"} ELSE offered
    /\ pc' = "pdf"
    /\ UNCHANGED <<df, df_display, engine, wide_logo, r0, ws, table, xlsx_bytes, pdf, pdf_bytes>>
    /\ UNCHANGED aux

\* main, col2: format_numbers_for_display, make_pdf_bytes and the PDF
\* download button.  register_arabic_font finds and registers a font file
\* or falls back to Helvetica; an exception of make_pdf_bytes leaves main.
MakePdf ==
    /\ pc = "pdf"
    /\ \E arabic_ok \in BOOLEAN :
         LET res == make_pdf_bytes(format_numbers_for_display(df_display, {}),
                                   TITLE_LINE, arabic_ok)
         IN  IF res.raised
             THEN /\ pc' = "pdf_raised"
                  /\ UNCHANGED <<pdf, pdf_bytes, offered>>
             ELSE /\ pdf' = res.pdf
                  /\ pdf_bytes' = "bytes"
                  /\ offered' = offered \cup {"pdf"}
                  /\ pc' = "done"
    /\ UNCHANGED <<df, df_display, engine, wide_logo, r0, ws, table, xlsx_bytes>>
    /\ UNCHANGED aux

Next ==
    \/ PrepareDisplay
    \/ ExcelUnavailable
    \/ ExcelFallback
    \/ ExcelOpen
    \/ WriteBody
    \/ WriteTotals
    \/ WriteCount
    \/ AddTable
    \/ OfferExcel
    \/ MakePdf

Spec == Init /\ [][Next]_vars

-----------------------------------------------------------------------------
(* The renderers called on their own.  SpecRender starts from any          *)
(* well-formed table (zero rows included) and calls one of                 *)
(* make_excel_bytes, make_pdf_bytes, make_csv_utf8 on it:                  *)
(*   "excel" ... "offer_xlsx"  as above                                    *)
(*   "pdf_call" -> "pdf_returned" or "pdf_raised"                          *)
(*   "csv_call" -> "csv_returned" -> "csv_again"                           *)

S_QUOTED == <<"s", "a", "y", " ", "\"", "h", "i", "\"">>

S_TWO_LINES == <<"a", "\n", "b">>

\* "زجاج" (glass)
S_GLASS == <<"ZAIN", "JEEM", "ALEF", "JEEM">>

\* "qty, m2"
COL_QTY == <<"q", "t", "y", ",", " ", "m", "2">>

P_QUOTE == [dtype |-> "object", base |-> <<Str(S_QUOTED), Str(S_TWO_LINES)>>]

P_MARKUP == [dtype |-> "object", base |-> <<Str(S_MARKUP), Str(S_ABC)>>]

P_ARABIC == [dtype |-> "object", base |-> <<Str(S_GLASS), Str(S_ABC), Null>>]

\* 1234.5 and -2500.0
P_BIG == [dtype |-> "numeric", base |-> <<Num(1234500), Num(-2500000)>>]

RenderNames == {COL_AMOUNT, COL_INVOICE_LINK, COL_QTY}

\* the patterns each column name is tried with when a renderer is called
\* on its own
RenderPatternsOf(name) ==
    CASE name = COL_AMOUNT -> {P_NUM, P_COMMA, P_QUOTE, P_MARKUP, P_ARABIC}
      [] name = COL_INVOICE_LINK -> {P_URL2, P_NUM, P_ARABIC}
      [] name = COL_QTY -> {P_DATE, P_QUOTE, P_STRNUM, P_BIG}

RenderChoices ==
    UNION { {[name |-> nm, pat |-> pt] : pt \in RenderPatternsOf(nm)} : nm \in RenderNames }

InitRender ==
    /\ \E n \in 0..MaxRows, k \in 1..MaxCols :
         \E cs \in [1..k -> RenderChoices] :
            /\ \A a, b \in 1..k : a # b => cs[a].name # cs[b].name
            /\ df = [n |-> n, cols |-> [j \in 1..k |-> MkCol(cs[j], n)]]
    /\ df_display = df
    /\ pc \in {"excel", "pdf_call", "csv_call"}
    /\ engine = "unset"
    /\ wide_logo = FALSE
    /\ r0 = -1
    /\ ws = EmptySheet
    /\ table = NoRange
    /\ xlsx_bytes = "unset"
    /\ pdf = NoPdf
    /\ pdf_bytes = "unset"
    /\ offered = {}
    /\ csv = <<>>
    /\ arg = <<>>
    /\ result = <<>>

\* make_pdf_bytes(df, title_line) on the table itself
RenderPdf ==
    /\ pc = "pdf_call"
    /\ \E arabic_ok \in BOOLEAN :
         LET res == make_pdf_bytes(svals(df_display), TITLE_LINE, arabic_ok)
         IN  IF res.raised
             THEN /\ pc' = "pdf_raised"
                  /\ UNCHANGED <<pdf, pdf_bytes>>
             ELSE /\ pdf' = res.pdf
                  /\ pdf_bytes' = "bytes"
                  /\ pc' = "pdf_returned"
    /\ UNCHANGED <<df, df_display, engine, wide_logo, r0, ws, table, xlsx_bytes, offered>>
    /\ UNCHANGED aux

\* make_csv_utf8(df)
MakeCsv ==
    /\ pc = "csv_call"
    /\ csv' = make_csv_utf8(df_display)
    /\ pc' = "csv_returned"
    /\ UNCHANGED <<df, df_display, engine, wide_logo, r0, ws, table, xlsx_bytes, pdf,
                   pdf_bytes, offered, arg, result>>

\* make_csv_utf8(df) once more on the same table
MakeCsvAgain ==
    /\ pc = "csv_returned"
    /\ result' = csv
    /\ csv' = make_csv_utf8(df_display)
    /\ pc' = "csv_again"
    /\ UNCHANGED <<df, df_display, engine, wide_logo, r0, ws, table, xlsx_bytes, pdf,
                   pdf_bytes, offered, arg>>

NextRender ==
    \/ ExcelUnavailable
    \/ ExcelFallback
    \/ ExcelOpen
    \/ WriteBody
    \/ WriteTotals
    \/ WriteCount
    \/ AddTable
    \/ RenderPdf
    \/ MakeCsv
    \/ MakeCsvAgain

SpecRender == InitRender /\ [][NextRender]_vars

-----
(* Properties.  Shared vocabulary first.                                   *)

AfterExcel == {"offer_xlsx", "pdf", "done", "pdf_raised"}

\* make_excel_bytes has just returned the sheet _write_excel_table wrote
SheetReturned == engine = "xlsxwriter" /\ pc = "offer_xlsx"

\* make_pdf_bytes has returned (and main is over)
PdfReturned == pc \in {"done", "pdf_returned"}

\* make_csv_utf8 has returned
CsvReturned == pc = "csv_returned"

NCols == Len(df_display.cols)

NRows == df_display.n

TotalsRow == r0 + 1 + NRows

CountRow == r0 + 2 + NRows

Written(r, c) == <<r, c>> \in DOMAIN ws

\* the sheet cell of data row i (from 1), column j (from 1)
BodyCellAt(i, j) == ws[<<r0 + i, j - 1>>]

\* a value that reads as a number: a number, or a string of digits
Coercible(v) == v.t = "num" \/ (v.t = "str" /\ IsDigits(v.s))

NumberOf(v) == IF v.t = "num" THEN v.n ELSE 1000 * DigitsVal(v.s)

\* the sum of the coercible values among the first k values
RECURSIVE CoercibleSum(_, _)
CoercibleSum(vals, k) ==
    IF k = 0 THEN 0
    ELSE CoercibleSum(vals, k - 1) + (IF Coercible(vals[k]) THEN NumberOf(vals[k]) ELSE 0)

\* the lower-cased name contains one of the exclusion keywords
MatchesExclusion(name) ==
    \E k \in DOMAIN exclude_keywords :
        \E o \in 0..(Len(name) - Len(exclude_keywords[k])) :
            SubSeq(Lower(name), o + 1, o + Len(exclude_keywords[k])) = exclude_keywords[k]

HasLinkMarker(name) ==
    \E o \in 0..(Len(name) - 4) : SubSeq(name, o + 1, o + 4) = <<"REH", "ALEF", "BEH", "TAH">>

HasIdMarker(name) ==
    \E o \in 0..(Len(name) - 2) : SubSeq(Lower(name), o + 1, o + 2) = <<"i", "d">>

\* the value is a string that begins with http:// or https://
UrlText(v) ==
    /\ v.t = "str"
    /\ \/ (Len(v.s) >= 7 /\ SubSeq(v.s, 1, 7) = <<"h", "t", "t", "p", ":", "/", "/">>)
       \/ (Len(v.s) >= 8 /\ SubSeq(v.s, 1, 8) = <<"h", "t", "t", "p", "s", ":", "/", "/">>)

\* null or the empty string
EmptyCell(v) == v.t = "null" \/ (v.t = "str" /\ v.s = <<>>)

\* the column is url-classified: a non-null value begins with http(s)://
\* or the name carries the link marker
UrlClassified(col) ==
    (\E i \in 1..Len(col.vals) : UrlText(col.vals[i])) \/ HasLinkMarker(col.name)

\* the cell itself qualifies as a link
CellIsLink(col, i) ==
    UrlText(col.vals[i]) \/ (HasLinkMarker(col.name) /\ ~EmptyCell(col.vals[i]))

IsLinkCell(c) == c.kind = "url" /\ c.label = LINK_LABEL /\ c.fmt = "link"

IsTextCell(c, v) ==
    /\ formats[c.fmt].align = "right"
    /\ formats[c.fmt].num_format = ""
    /\ IF EmptyCell(v) THEN c.kind = "blank" ELSE (c.kind = "string" /\ c.text = str(v))

\* C1: in the totals row, every column other than the first whose name
\* matches no exclusion keyword holds the sum of its coercible values
\* (nulls and non-coercible values ignored) when the absolute value of the
\* sum exceeds 0.001, and is blank otherwise or when nothing is coercible.
C1_TotalsSum ==
    SheetReturned =>
        \A j \in 2..NCols :
            LET col == df_display.cols[j]
                cell == ws[<<TotalsRow, j - 1>>]
                total == CoercibleSum(col.vals, Len(col.vals))
            IN  ~MatchesExclusion(col.name) =>
                    IF (\E i \in 1..Len(col.vals) : Coercible(col.vals[i])) /\ Abs(total) > 1
                    THEN cell.kind = "number" /\ cell.n = total
                         /\ formats[cell.fmt].num_format = "#,##0.00"
                    ELSE cell.kind = "blank"

\* a summed column that holds a null: the null is ignored
C1_Witness ==
    /\ SheetReturned
    /\ \E j \in 2..NCols :
          /\ ~MatchesExclusion(df_display.cols[j].name)
          /\ \E i \in 1..NRows : isna(df_display.cols[j].vals[i])
          /\ ws[<<TotalsRow, j - 1>>].kind = "number"
          /\ ws[<<TotalsRow, j - 1>>].n = 10000

\* C2: a column whose lower-cased name contains an exclusion keyword is
\* blank in the totals row whatever its values, also when all are numbers.
C2_ExcludedBlank ==
    SheetReturned =>
        \A j \in 2..NCols :
            MatchesExclusion(df_display.cols[j].name) => ws[<<TotalsRow, j - 1>>].kind = "blank"

\* the "Due Date" column holding numbers only
C2_Witness ==
    /\ SheetReturned
    /\ \E j \in 2..NCols :
          /\ df_display.cols[j].name = COL_DUE_DATE
          /\ \A i \in 1..NRows : df_display.cols[j].vals[i].t = "num"
          /\ ws[<<TotalsRow, j - 1>>].kind = "blank"

\* the count row is the last row of the sheet, directly below the totals
\* row, and starts with the label
CountRowPlaced ==
    /\ \A p \in DOMAIN ws : p[1] <= CountRow
    /\ Written(CountRow - 1, 0) /\ ws[<<CountRow - 1, 0>>].text = Lit(TOTAL_LABEL)
    /\ Written(CountRow, 0) /\ ws[<<CountRow, 0>>].text = Lit(COUNT_LABEL)

CountRowFilled ==
    /\ Written(CountRow, 1)
    /\ ws[<<CountRow, 1>>].kind = "number"
    /\ ws[<<CountRow, 1>>].n = 1000 * NRows
    /\ \A j \in 2..(NCols - 1) : Written(CountRow, j) /\ ws[<<CountRow, j>>].kind = "blank"

C4_LinkByColumn ==
    /\ SheetReturned =>
         \A j \in 1..NCols : \A i \in 1..NRows :
            LET col == df_display.cols[j]
            IN  UrlClassified(col) =>
                    IF EmptyCell(col.vals[i]) THEN BodyCellAt(i, j).kind = "blank"
                    ELSE IsLinkCell(BodyCellAt(i, j))
    /\ PdfReturned =>
         \A j \in 1..NCols : \A i \in 1..NRows :
            LET col == df_display.cols[j]
            IN  UrlClassified(col) =>
                    IF EmptyCell(col.vals[i]) THEN pdf.rows[i][j].kind = "para"
                    ELSE pdf.rows[i][j].kind = "link"

\* C4 amended: the test is made per cell.  A cell is a link, with the fixed
\* label, exactly when its own text begins with http:// or https:// or its
\* column name contains the link marker and the cell is non-empty; an empty
\* or null cell is blank; this holds in the sheet and in the PDF.
C4_LinkByCell ==
    /\ SheetReturned =>
         \A j \in 1..NCols : \A i \in 1..NRows :
            LET col == df_display.cols[j]
                cell == BodyCellAt(i, j)
            IN  /\ CellIsLink(col, i) => IsLinkCell(cell) /\ cell.text = str(col.vals[i])
                /\ ~CellIsLink(col, i) => cell.kind # "url"
                /\ EmptyCell(col.vals[i]) => cell.kind = "blank"
    /\ PdfReturned =>
         \A j \in 1..NCols : \A i \in 1..NRows :
            LET col == df_display.cols[j]
                cell == pdf.rows[i][j]
            IN  /\ CellIsLink(col, i) => cell.kind = "link" /\ cell.text = Lit(LINK_LABEL)
                /\ ~CellIsLink(col, i) => cell.kind = "para"
                /\ EmptyCell(col.vals[i]) => cell.kind = "para" /\ cell.text = Lit(<<>>)

\* a link-named column with an http:// value and an empty cell, rendered
\* in both outputs
C4_Witness ==
    /\ PdfReturned
    /\ engine = "xlsxwriter"
    /\ \E j \in 1..NCols : \E i, k \in 1..NRows :
          /\ HasLinkMarker(df_display.cols[j].name)
          /\ df_display.cols[j].vals[i] = Str(S_URL2)
          /\ EmptyCell(df_display.cols[j].vals[k])
          /\ BodyCellAt(i, j).kind = "url" /\ pdf.rows[i][j].kind = "link"
          /\ BodyCellAt(k, j).kind = "blank"

C6_MixedIsText ==
    SheetReturned =>
        \A j \in 1..NCols :
            LET col == df_display.cols[j]
            IN  (\E i \in 1..NRows : col.vals[i].t = "str" /\ ~IsDigits(col.vals[i].s)) =>
                    \A i \in 1..NRows :
                        /\ BodyCellAt(i, j).kind \notin {"number", "datetime"}
                        /\ ~CellIsLink(col, i) => IsTextCell(BodyCellAt(i, j), col.vals[i])

\* the column "100", "not a number"
C6_Witness ==
    /\ SheetReturned
    /\ \E j \in 1..NCols :
          /\ ~HasLinkMarker(df_display.cols[j].name)
          /\ NRows = 2
          /\ df_display.cols[j].vals[1] = Str(S_100)
          /\ df_display.cols[j].vals[2] = Str(S_NOT_A_NUMBER)
          /\ BodyCellAt(1, j).kind = "string"

\* every non-null value is a string of digits with thousands separators
AllThousands(col) ==
    /\ \E i \in 1..Len(col.vals) : ~isna(col.vals[i])
    /\ \A i \in 1..Len(col.vals) :
          \/ isna(col.vals[i])
          \/ /\ col.vals[i].t = "str"
             /\ \E k \in 1..Len(col.vals[i].s) : col.vals[i].s[k] = ","
             /\ IsDigits(StripCommas(col.vals[i].s))

RECURSIVE StrippedSum(_, _)
StrippedSum(vals, k) ==
    IF k = 0 THEN 0
    ELSE StrippedSum(vals, k - 1)
         + (IF isna(vals[k]) THEN 0 ELSE 1000 * DigitsVal(StripCommas(vals[k].s)))

\* C7: a column of numbers written with thousands separators is numeric:
\* its cells are native numbers and the totals row holds their sum with
\* the separators stripped.
C7_ThousandsNumeric ==
    SheetReturned =>
        \A j \in 1..NCols :
            LET col == df_display.cols[j]
            IN  (AllThousands(col) /\ ~HasLinkMarker(col.name)) =>
                    /\ \A i \in 1..NRows :
                          ~isna(col.vals[i]) =>
                              /\ BodyCellAt(i, j).kind = "number"
                              /\ BodyCellAt(i, j).n = 1000 * DigitsVal(StripCommas(col.vals[i].s))
                    /\ (j >= 2 /\ ~MatchesExclusion(col.name)) =>
                          /\ ws[<<TotalsRow, j - 1>>].kind = "number"
                          /\ ws[<<TotalsRow, j - 1>>].n = StrippedSum(col.vals, NRows)

C9_CellFailureNeverAborts ==
    /\ pc # "aborted"
    /\ SheetReturned => \A j \in 1..NCols : \A i \in 1..NRows : Written(r0 + i, j - 1)

\* C10: make_excel_bytes returns None, without raising, exactly when no
\* engine is available; main then offers no spreadsheet download and still
\* offers the PDF download.
C10_NoEngine ==
    /\ pc \in AfterExcel => (xlsx_bytes = "None" <=> engine = "none")
    /\ engine = "none" => pc # "aborted" /\ ws = EmptySheet
    /\ (pc = "done" /\ engine = "none") => ("xlsx" \notin offered /\ "pdf" \in offered)
    /\ (pc = "done" /\ engine # "none") => offered = {"xlsx", "pdf"}

C10_Witness ==
    /\ pc = "done"
    /\ engine = "none"
    /\ xlsx_bytes = "None"
    /\ pdf_bytes = "bytes"
    /\ offered = {"pdf"}

\* C11: an empty result (zero rows) is not an error: the spreadsheet still
\* holds the header row (one header per displayable column of the result),
\* the totals row and the count row showing 0; the PDF is produced with the
\* header row and no data rows; the CSV is the header line only.
C11_EmptyResultRenders ==
    df.n = 0 =>
        /\ SheetReturned =>
              /\ \A j \in 1..Len(df.cols) :
                    ~HasIdMarker(df.cols[j].name) =>
                        \E c \in 0..(Len(df.cols) - 1) :
                            Written(r0, c) /\ ws[<<r0, c>>].text = Lit(df.cols[j].name)
              /\ Written(r0 + 1, 0) /\ ws[<<r0 + 1, 0>>].text = Lit(TOTAL_LABEL)
              /\ Written(r0 + 2, 0) /\ ws[<<r0 + 2, 0>>].text = Lit(COUNT_LABEL)
              /\ Len(df.cols) >= 2 =>
                    Written(r0 + 2, 1) /\ ws[<<r0 + 2, 1>>].kind = "number" /\ ws[<<r0 + 2, 1>>].n = 0
        /\ pc # "pdf_raised"
        /\ PdfReturned => Len(pdf.headers) >= 1 /\ pdf.rows = <<>>

\* C12: make_pdf_bytes returns PDF bytes for every well-formed table and
\* every asset situation, with the default typeface when no Arabic font is
\* registered; it never raises.
C12_PdfNeverRaises ==
    /\ pc # "pdf_raised"
    /\ PdfReturned =>
          /\ pdf_bytes = "bytes"
          /\ pdf.font \in {"arabic", "Helvetica"}
          /\ Len(pdf.headers) = NCols
          /\ Len(pdf.rows) = NRows

\* the paragraph is laid out in its reshaped form
Reshaped(p) == p.shown.f = "shaped"

\* C13: in the PDF a string (title, column header, cell text, link caption)
\* is reshaped exactly when an Arabic font has been registered and the
\* string contains an Arabic letter; a string without Arabic letters is
\* left untouched, a cell text without them is laid out left-aligned, and
\* with the default typeface no string is reshaped.
C13_ReshapeIffFontAndArabic ==
    PdfReturned =>
        LET arabic_ok == pdf.font # "Helvetica"
            Rule(p) ==
                /\ Reshaped(p) <=> (arabic_ok /\ looks_arabic(p.text))
                /\ ~looks_arabic(p.text) => p.shown = p.text
        IN  /\ Rule(pdf.title)
            /\ \A j \in 1..Len(pdf.headers) : Rule(pdf.headers[j])
            /\ \A i \in 1..Len(pdf.rows) : \A j \in 1..Len(pdf.rows[i]) :
                  /\ Rule(pdf.rows[i][j])
                  /\ (pdf.rows[i][j].kind = "para" /\ ~looks_arabic(pdf.rows[i][j].text)) =>
                        pdf.rows[i][j].align = "left"

\* Reading delimited text back (RFC 4180).  A position is outside a
\* quoted field when an even number of quote characters precedes it.
QuotesBefore(cs, k) == Cardinality({q \in 1..(k - 1) : cs[q] = "\""})

\* the positions of ch outside quoted fields
Breaks(cs, ch) == {k \in 1..Len(cs) : cs[k] = ch /\ QuotesBefore(cs, k) % 2 = 0}

\* the r-th smallest element of a set of positions
Nth(S, r) == CHOOSE p \in S : Cardinality({q \in S : q <= p}) = r

\* the field at positions a..b without its enclosing quotes and with each
\* doubled quote read as one: of the quote characters of the field the
\* third, fifth, ... are kept
Unquote(cs, a, b) ==
    LET kept == {p \in a..b :
                    \/ cs[p] # "\""
                    \/ LET qi == Cardinality({q \in a..p : cs[q] = "\""})
                       IN  qi % 2 = 1 /\ qi >= 3}
    IN  [r \in 1..Cardinality(kept) |-> cs[Nth(kept, r)]]

\* the records of the text, each a sequence of fields
parse_csv(cs) ==
    LET ends == Breaks(cs, "\n")
        commas == Breaks(cs, ",")
    IN  [r \in 1..Cardinality(ends) |->
            LET a == IF r = 1 THEN 1 ELSE Nth(ends, r - 1) + 1
                b == Nth(ends, r) - 1
                seps == {k \in commas : a <= k /\ k <= b}
            IN  [f \in 1..(Cardinality(seps) + 1) |->
                    Unquote(cs,
                            IF f = 1 THEN a ELSE Nth(seps, f - 1) + 1,
                            IF f > Cardinality(seps) THEN b ELSE Nth(seps, f) - 1)]]

\* the number a decimal text denotes, in thousandths (-1 when the text is
\* not of the form [-]digits.digits with one to three decimals)
ReadNumber(s) ==
    LET neg == Len(s) > 0 /\ s[1] = "-"
        body == IF neg THEN Tail(s) ELSE s
        dots == {k \in 1..Len(body) : body[k] = "."}
    IN  IF Cardinality(dots) # 1 THEN -1
        ELSE LET d == CHOOSE k \in dots : TRUE
                 ip == SubSeq(body, 1, d - 1)
                 fp == SubSeq(body, d + 1, Len(body))
             IN  IF ~IsDigits(ip) \/ ~IsDigits(fp) \/ Len(fp) > 3 THEN -1
                 ELSE 1000 * DigitsVal(ip)
                      + DigitsVal(fp) * (IF Len(fp) = 1 THEN 100 ELSE IF Len(fp) = 2 THEN 10 ELSE 1)

IsNegative(s) == Len(s) > 0 /\ s[1] = "-"

\* the text is the plain text of the value: nothing for a null, the string
\* itself, the decimal text of the number, the ISO date of the Timestamp
IsPlainTextOf(s, v) ==
    CASE v.t = "null" -> s = <<>>
      [] v.t = "str" -> s = v.s
      [] v.t = "num" -> ReadNumber(s) = Abs(v.n) /\ (IsNegative(s) <=> v.n < 0)
      [] v.t = "date" ->
            /\ Len(s) = 10
            /\ SubSeq(s, 1, 9) = <<"2", "0", "2", "4", "-", "0", "1", "-", "0">>
            /\ s[10] \in Digits /\ DigitVal(s[10]) = v.n

\* C14: make_csv_utf8 followed by parsing the output as delimited text,
\* the byte-order mark removed, yields the header names and, for every row
\* and column, the plain text of the original cell value, rows and columns
\* in the original order.
C14_CsvRoundTrip ==
    CsvReturned =>
        LET recs == parse_csv(Tail(csv))
        IN  /\ Len(recs) = NRows + 1
            /\ recs[1] = [j \in 1..NCols |-> df_display.cols[j].name]
            /\ \A i \in 1..NRows :
                  /\ Len(recs[i + 1]) = NCols
                  /\ \A j \in 1..NCols :
                        IsPlainTextOf(recs[i + 1][j], df_display.cols[j].vals[i])

\* a table whose header holds a comma and whose cells hold quote
\* characters, a line break and a null
C14_Witness ==
    /\ CsvReturned
    /\ NRows = 2
    /\ \E j, k, l \in 1..NCols :
          /\ df_display.cols[j].name = COL_QTY
          /\ df_display.cols[k].vals[1] = Str(S_QUOTED)
          /\ df_display.cols[k].vals[2] = Str(S_TWO_LINES)
          /\ isna(df_display.cols[l].vals[2])
    /\ Len(parse_csv(Tail(csv))) = 3

\* make_csv_utf8 has returned, for the first or the second time
CsvProduced == pc \in {"csv_returned", "csv_again"}

FieldUsesOnly(s, chars) == \A k \in 1..Len(s) : s[k] \in chars

\* C15: the CSV output starts with exactly one byte-order mark; every cell
\* is written as its plain text whatever the column is called and whatever
\* its dtype is (a URL in a link column is the URL, not a caption; a number
\* has no thousands separator and no fixed two decimals; equal values in
\* two columns give equal fields); a second call on the same table returns
\* the same output.
C15_CsvPlainOneMark ==
    CsvProduced =>
        /\ Len(csv) >= 1 /\ csv[1] = "BOM"
        /\ \A k \in 2..Len(csv) : csv[k] # "BOM"
        /\ LET recs == parse_csv(Tail(csv))
           IN  \A i \in 1..NRows : \A j \in 1..NCols :
                  LET v == df_display.cols[j].vals[i]
                      s == recs[i + 1][j]
                  IN  /\ v.t = "str" => s = v.s
                      /\ v.t = "num" =>
                            /\ FieldUsesOnly(s, Digits \cup {".", "-"})
                            /\ (v.n % 100 = 0) => (s[Len(s) - 1] = ".")
                      /\ v.t = "date" => FieldUsesOnly(s, Digits \cup {"-"})
                      /\ \A j2 \in 1..NCols :
                            df_display.cols[j2].vals[i] = v => recs[i + 1][j2] = s
        /\ pc = "csv_again" => csv = result

\* the second call has returned on a table with a URL in the link column,
\* a number above a thousand and a date
C15_Witness ==
    /\ pc = "csv_again"
    /\ NRows >= 2
    /\ \E j, k \in 1..NCols :
          /\ HasLinkMarker(df_display.cols[j].name)
          /\ df_display.cols[j].vals[2] = Str(S_URL2)
          /\ df_display.cols[k].vals[1] = Num(1234500)

\* the sheet cell carries the value: a blank for a null or an empty string,
\* the number or the date itself, or the text of the value
Carries(c, v) ==
    IF EmptyCell(v) THEN c.kind = "blank"
    ELSE \/ (v.t = "num" /\ c.kind = "number" /\ c.n = v.n)
         \/ (v.t = "date" /\ c.kind = "datetime" /\ c.n = v.n)
         \/ (c.kind \in {"string", "url"} /\ c.text = str(v))

\* the PDF cell carries the value: as the text of its paragraph or as the
\* target of its link
PdfCarries(p, v) ==
    IF p.kind = "link" THEN p.href = sval_of(v) ELSE p.text = sval_of(v)

\* C16: no renderer reorders rows: the i-th data row of the table is the
\* i-th sheet row below the header, the i-th row of the PDF table after the
\* header, and the i-th record of the CSV after the header line.
C16_RowOrderKept ==
    /\ SheetReturned =>
          \A i \in 1..NRows : \A j \in 1..NCols :
              Written(r0 + i, j - 1) /\ Carries(BodyCellAt(i, j), df_display.cols[j].vals[i])
    /\ pc = "pdf_returned" =>
          /\ Len(pdf.rows) = NRows
          /\ \A i \in 1..NRows : \A j \in 1..NCols :
                PdfCarries(pdf.rows[i][j], df_display.cols[j].vals[i])
    /\ CsvReturned =>
          LET recs == parse_csv(Tail(csv))
          IN  /\ Len(recs) = NRows + 1
              /\ \A i \in 1..NRows : \A j \in 1..Len(recs[i + 1]) :
                    j <= NCols => IsPlainTextOf(recs[i + 1][j], df_display.cols[j].vals[i])

\* a sheet of rows that differ from one another
C16_Witness ==
    /\ SheetReturned
    /\ NRows >= 2
    /\ \A i1, i2 \in 1..NRows :
          i1 # i2 => \E j \in 1..NCols :
                        ~Carries(BodyCellAt(i1, j), df_display.cols[j].vals[i2])

\* the first row make_excel_bytes writes to: below the logo when there is one
TitleRow == IF wide_logo THEN 1 ELSE 0

\* C17: whenever make_excel_bytes returns the sheet it laid out, the sheet
\* holds from top to bottom the logo row (when there is a logo), the title
\* merged across the columns, one blank row, the header row, one row per
\* data row, the totals row and the count row, and nothing else; the
\* registered table spans the header row through the count row and the
\* first through the last column; the panes are frozen below the header.
C17_SheetLayout ==
    SheetReturned =>
        /\ Written(TitleRow, 0)
        /\ ws[<<TitleRow, 0>>].kind = "merged"
        /\ ws[<<TitleRow, 0>>].text = Lit(TITLE_LINE)
        /\ r0 = TitleRow + 2
        /\ \A j \in 1..NCols :
              /\ Written(r0, j - 1)
              /\ ws[<<r0, j - 1>>].text = Lit(df_display.cols[j].name)
              /\ \A i \in 1..NRows : Written(r0 + i, j - 1)
        /\ Written(TotalsRow, 0) /\ ws[<<TotalsRow, 0>>].text = Lit(TOTAL_LABEL)
        /\ Written(CountRow, 0) /\ ws[<<CountRow, 0>>].text = Lit(COUNT_LABEL)
        /\ \A p \in DOMAIN ws : p[1] = TitleRow \/ (r0 <= p[1] /\ p[1] <= CountRow)
        /\ table = [first_row |-> r0, first_col |-> 0, last_row |-> CountRow,
                    last_col |-> NCols - 1, freeze_row |-> r0 + 1]

-----------------------------------------------------------------------------
(* safe_filename (utils/data_helpers.py), which main applies to the file   *)
(* names of the downloads, called on its own.  pc: "fn_call" ->            *)
(* "fn_returned" -> "fn_again" (the function applied to its own result).   *)

\* the nine characters safe_filename replaces
UnsafeChars == {"/", "\\", ":", "*", "?", "\"", "<", ">", "|"}

\* the characters of the file names of the model: the nine, the four
\* replacement characters and a letter
NameChars == UnsafeChars \cup {"-", "'", "(", ")", "a"}

\* variant: only the first occurrence is replaced
replace_first_only(s, old, new) ==
    [k \in 1..Len(s) |->
        IF s[k] = old /\ (\A q \in 1..(k - 1) : s[q] # old) THEN new ELSE s[k]]

\* str.replace(old, new) for one-character old and new
replace(s, old, new) == [k \in 1..Len(s) |-> IF s[k] = old THEN new ELSE s[k]]

safe_filename(s) ==
    replace(replace(replace(replace(replace(replace(replace(replace(replace(s,
        "/", "-"), "\\", "-"), ":", "-"), "*", "-"), "?", "-"), "\"", "'"),
        "<", "("), ">", ")"), "|", "-")

InitFilename ==
    /\ \E n \in 0..MaxName : arg \in [1..n -> NameChars]
    /\ result = <<>>
    /\ pc = "fn_call"
    /\ df = NoTable
    /\ df_display = NoTable
    /\ engine = "unset"
    /\ wide_logo = FALSE
    /\ r0 = -1
    /\ ws = EmptySheet
    /\ table = NoRange
    /\ xlsx_bytes = "unset"
    /\ pdf = NoPdf
    /\ pdf_bytes = "unset"
    /\ offered = {}
    /\ csv = <<>>

\* safe_filename(s)
SafeFilename ==
    /\ pc = "fn_call"
    /\ result' = safe_filename(arg)
    /\ pc' = "fn_returned"
    /\ UNCHANGED <<df, df_display, engine, wide_logo, r0, ws, table, xlsx_bytes, pdf,
                   pdf_bytes, offered, csv, arg>>

\* safe_filename(safe_filename(s))
SafeFilenameAgain ==
    /\ pc = "fn_returned"
    /\ arg' = result
    /\ result' = safe_filename(result)
    /\ pc' = "fn_again"
    /\ UNCHANGED <<df, df_display, engine, wide_logo, r0, ws, table, xlsx_bytes, pdf,
                   pdf_bytes, offered, csv>>

NextFilename ==
    \/ SafeFilename
    \/ SafeFilenameAgain

SpecFilename == InitFilename /\ [][NextFilename]_vars

\* C18: safe_filename replaces every occurrence of each of the nine unsafe
\* characters by a safe character and leaves every other character as it
\* is: the output has the length of the input and none of the nine
\* characters, and safe_filename of the output is the output.
C18_SafeFilename ==
    /\ pc = "fn_returned" =>
          /\ Len(result) = Len(arg)
          /\ \A k \in 1..Len(arg) :
                /\ result[k] \notin UnsafeChars
                /\ arg[k] \notin UnsafeChars => result[k] = arg[k]
                /\ arg[k] \in UnsafeChars => result[k] \in {"-", "'", "(", ")"}
    /\ pc = "fn_again" => result = arg

\* safe_filename has returned for a name that holds the same unsafe
\* character twice next to a safe one
C18_Witness ==
    /\ pc = "fn_returned"
    /\ arg = <<"\"", "a", "\"">>
    /\ result = <<"'", "a", "'">>

-----------------------------------------------------------------------------
(* format_numbers_for_display called on its own: arg is no_comma_cols,     *)
(* result the formatted copy.  pc: "fmt_call" -> "fmt_returned".           *)

\* "رقم الحساب" (account number)
COL_ACCOUNT_NO ==
    <<"REH", "QAF", "MEEM", " ", "ALEF", "LAM", "HAH", "SEEN", "ALEF", "BEH">>

\* "رقم الفاتورة" (invoice number)
COL_INVOICE_NO ==
    <<"REH", "QAF", "MEEM", " ", "ALEF", "LAM", "FEH", "ALEF", "TEH", "WAW", "REH",
      "TEH_MARBUTA">>

\* "رقم الشيك" (cheque number)
COL_CHEQUE_NO ==
    <<"REH", "QAF", "MEEM", " ", "ALEF", "LAM", "SHEEN", "YEH", "KAF">>

FormatNames == {COL_ACCOUNT_NO, COL_INVOICE_NO, COL_CHEQUE_NO, COL_AMOUNT}

FormatPatterns == {P_BIG, P_COMMA, P_NUM, P_STRNUM}

FormatChoices == {[name |-> nm, pat |-> pt] : nm \in FormatNames, pt \in FormatPatterns}

\* requested = {_normalize_name(c) for c in (no_comma_cols or [])}
requested_of(no_comma_cols) ==
    {normalize_name(no_comma_cols[k]) : k \in 1..Len(no_comma_cols)}

InitFormat ==
    /\ \E n \in 0..MaxRows, k \in 1..MaxCols :
         \E cs \in [1..k -> FormatChoices] :
            /\ \A a, b \in 1..k : a # b => cs[a].name # cs[b].name
            /\ df = [n |-> n, cols |-> [j \in 1..k |-> MkCol(cs[j], n)]]
    /\ arg \in {<<>>, <<COL_AMOUNT>>}
    /\ result = <<>>
    /\ pc = "fmt_call"
    /\ df_display = df
    /\ engine = "unset"
    /\ wide_logo = FALSE
    /\ r0 = -1
    /\ ws = EmptySheet
    /\ table = NoRange
    /\ xlsx_bytes = "unset"
    /\ pdf = NoPdf
    /\ pdf_bytes = "unset"
    /\ offered = {}
    /\ csv = <<>>

\* format_numbers_for_display(df, no_comma_cols)
FormatNumbers ==
    /\ pc = "fmt_call"
    /\ result' = format_numbers_for_display(df_display, requested_of(arg))
    /\ pc' = "fmt_returned"
    /\ UNCHANGED <<df, df_display, engine, wide_logo, r0, ws, table, xlsx_bytes, pdf,
                   pdf_bytes, offered, csv, arg>>

NextFormat == FormatNumbers

SpecFormat == InitFormat /\ [][NextFormat]_vars

\* the text shows a thousands separator
HasSeparator(x) ==
    \/ (x.f = "fmt2" /\ Abs(x.n) >= 1000000)
    \/ (x.f = "lit" /\ Contains(x.s, <<",">>))

\* C19: format_numbers_for_display shows without thousands separators every
\* column listed in no_comma_cols and every column whose name contains the
\* cheque marker or the number marker; every other numeric value is shown
\* with thousands separators and two decimals.
C19_NoCommaColumns ==
    pc = "fmt_returned" =>
        \A j \in 1..NCols :
            LET col == df_display.cols[j]
                c_norm == normalize_name(col.name)
            IN  \A i \in 1..NRows :
                    IF \/ c_norm \in requested_of(arg)
                       \/ Contains(c_norm, CHEQUE_MARKER)
                       \/ Contains(c_norm, NUMBER_MARKER)
                    THEN ~HasSeparator(result.cols[j].texts[i])
                    ELSE col.vals[i].t = "num" =>
                            result.cols[j].texts[i] = Fmt("fmt2", col.vals[i].n)

-----------------------------------------------------------------------------
(* _write_excel_table on a table and on the same table with its rows       *)
(* shuffled: arg is the permutation (row i of the shuffled table is row    *)
(* arg[i] of the table), ws the sheet of the table, result the sheet of    *)
(* the shuffled table.  pc: "perm_call" -> "perm_returned".                *)

\* 33554.432, 0.002 and -33554.432: the first two do not add up exactly
P_EDGE == [dtype |-> "numeric", base |-> <<Num(33554432), Num(2), Num(-33554432)>>]

PermNames == {COL_AMOUNT, COL_QTY, COL_INVOICE_LINK, COL_INVOICE_DATE}

PermPatternsOf(name) ==
    CASE name = COL_AMOUNT -> {P_EDGE, P_STRNUM, P_URL}
      [] name = COL_QTY -> {P_EDGE, P_NUM}
      [] name = COL_INVOICE_LINK -> {P_URL2, P_NUM}
      [] name = COL_INVOICE_DATE -> {P_DATE}

PermChoices ==
    UNION { {[name |-> nm, pat |-> pt] : pt \in PermPatternsOf(nm)} : nm \in PermNames }

\* df.iloc[perm]
Permute(t, perm) ==
    [n |-> t.n,
     cols |-> [j \in 1..Len(t.cols) |->
                 [name |-> t.cols[j].name, dtype |-> t.cols[j].dtype,
                  vals |-> [i \in 1..t.n |-> t.cols[j].vals[perm[i]]]]]]

\* _write_excel_table(ws, wb, df, start_row, 0) when no write raises: the
\* header row, the body, the totals row and the count row
write_excel_table(t, start_row) ==
    write_count(
        write_totals(
            write_body(write_headers(EmptySheet, t.cols, start_row, 1), t, start_row, 0, -1).ws,
            t.cols, start_row + 1 + t.n, 1),
        t, start_row + 2 + t.n, 0)

InitPermute ==
    /\ \E n \in 0..PermRows, k \in 1..MaxCols :
         /\ \E cs \in [1..k -> PermChoices] :
               /\ \A a, b \in 1..k : a # b => cs[a].name # cs[b].name
               /\ df = [n |-> n, cols |-> [j \in 1..k |-> MkCol(cs[j], n)]]
         /\ arg \in {p \in [1..n -> 1..n] : \A a, b \in 1..n : a # b => p[a] # p[b]}
    /\ df_display = df
    /\ result = <<>>
    /\ pc = "perm_call"
    /\ engine = "xlsxwriter"
    /\ wide_logo = FALSE
    /\ r0 = 0
    /\ ws = EmptySheet
    /\ table = NoRange
    /\ xlsx_bytes = "unset"
    /\ pdf = NoPdf
    /\ pdf_bytes = "unset"
    /\ offered = {}
    /\ csv = <<>>

WriteShuffled ==
    /\ pc = "perm_call"
    /\ ws' = write_excel_table(df_display, r0)
    /\ result' = write_excel_table(Permute(df_display, arg), r0)
    /\ pc' = "perm_returned"
    /\ UNCHANGED <<df, df_display, engine, wide_logo, r0, table, xlsx_bytes, pdf,
                   pdf_bytes, offered, csv, arg>>

NextPermute == WriteShuffled

SpecPermute == InitPermute /\ [][NextPermute]_vars

\* cell for cell, the body of the shuffled sheet is the body of the sheet
SameCells ==
    \A j \in 1..NCols : \A i \in 1..NRows :
        result[<<r0 + i, j - 1>>] = ws[<<r0 + arg[i], j - 1>>]

\* C20 as stated: for every table and every permutation of its rows, every
\* cell is handled as the same kind as before (link, date, number, text)
\* and every column has the same totals cell, summed or blank and with the
\* same total.
C20_SameUnderPermutation ==
    pc = "perm_returned" =>
        /\ SameCells
        /\ \A j \in 1..NCols : result[<<TotalsRow, j - 1>>] = ws[<<TotalsRow, j - 1>>]

\* every partial sum of the coercible values of the column, in whatever
\* order, is a float: no addition rounds
AddsExactly(col) ==
    LET Mag(i) == IF Coercible(col.vals[i]) THEN Abs(NumberOf(col.vals[i])) ELSE 0
        Total[i \in 0..Len(col.vals)] == IF i = 0 THEN 0 ELSE Total[i - 1] + Mag(i)
    IN  Total[Len(col.vals)] < SigLimit

\* C20, amended: every cell is handled as the same kind as before the
\* permutation; a column whose name matches the exclusion list or that has
\* no coercible value has a blank totals cell before and after; the totals
\* cell is the same, summed or blank and with the same total, whenever the
\* additions of the column are exact.
C20_SameKindUnderPermutation ==
    pc = "perm_returned" =>
        /\ SameCells
        /\ \A j \in 2..NCols :
              LET col == df_display.cols[j]
                  before == ws[<<TotalsRow, j - 1>>]
                  after == result[<<TotalsRow, j - 1>>]
              IN  /\ \/ MatchesExclusion(col.name)
                     \/ (col.dtype # "datetime" /\ \A i \in 1..NRows : ~Coercible(col.vals[i]))
                     => (before.kind = "blank" /\ after.kind = "blank")
                  /\ (col.dtype # "datetime" /\ AddsExactly(col)) => after = before

\* three rows in another order, with a link cell and a cell that is no
\* link in one column and a total in the other
C20_Witness ==
    /\ pc = "perm_returned"
    /\ NRows = 3 /\ NCols = 2
    /\ arg = <<3, 1, 2>>
    /\ df_display.cols[1].vals[1] = Str(S_URL1)
    /\ ws[<<r0 + 1, 0>>].kind = "url" /\ ws[<<r0 + 2, 0>>].kind = "string"
    /\ result[<<r0 + 2, 0>>].kind = "url"
    /\ ws[<<TotalsRow, 1>>].kind = "number" /\ result[<<TotalsRow, 1>>] = ws[<<TotalsRow, 1>>]

-----------------------------------------------------------------------------
(* make_pdf_bytes called on tables of up to MaxPdfCols columns of strings: *)
(* the first column has a header of H1 characters and cells of L1          *)
(* characters, every other column a header of H and cells of L characters  *)
(* (the second row of a column holds one character).                       *)

Rep(ch, n) == [k \in 1..n |-> ch]

ColumnLetters ==
    <<"a", "b", "c", "d", "e", "f", "g", "k", "l", "m", "n", "o", "q", "r", "s", "u">>

WideCol(j, hlen, clen, n) ==
    [name |-> <<ColumnLetters[j]>> \o Rep("h", hlen - 1),
     dtype |-> "object",
     vals |-> [i \in 1..n |-> IF i = 1 THEN Str(Rep("x", clen)) ELSE Str(<<"y">>)]]

\* the first column of a laid-out table: strings only ("text"), a missing
\* value in row 1 ("missing"), or midnight timestamps ("dates")
FirstCol(kind, hlen, clen, n) ==
    CASE kind = "text" -> WideCol(1, hlen, clen, n)
      [] kind = "missing" ->
            [name |-> <<ColumnLetters[1]>> \o Rep("h", hlen - 1),
             dtype |-> "object",
             vals |-> [i \in 1..n |-> IF i = 1 THEN Null ELSE Str(<<"y">>)]]
      [] kind = "dates" ->
            [name |-> <<ColumnLetters[1]>> \o Rep("h", hlen - 1),
             dtype |-> "datetime",
             vals |-> [i \in 1..n |-> Date(1)]]

HeaderLens == {2, 12, 21}

CellLens == {0, 8, 17, 19, 25}

InitWidths ==
    /\ \E n \in 0..MaxRows, k \in 1..MaxPdfCols :
         \E h1, h \in HeaderLens, c1 \in {0, 19, 25}, c \in CellLens,
            kind \in {"text", "missing", "dates"} :
            df = [n |-> n,
                  cols |-> [j \in 1..k |-> IF j = 1 THEN FirstCol(kind, h1, c1, n)
                                           ELSE WideCol(j, h, c, n)]]
    /\ df_display = df
    /\ pc = "pdf_call"
    /\ engine = "unset"
    /\ wide_logo = FALSE
    /\ r0 = -1
    /\ ws = EmptySheet
    /\ table = NoRange
    /\ xlsx_bytes = "unset"
    /\ pdf = NoPdf
    /\ pdf_bytes = "unset"
    /\ offered = {}
    /\ csv = <<>>
    /\ arg = <<>>
    /\ result = <<>>

NextWidths == RenderPdf

SpecWidths == InitWidths /\ [][NextWidths]_vars

\* the exact sum of a sequence of widths
Total(widths) ==
    LET Sum[k \in 0..Len(widths)] == IF k = 0 THEN 0 ELSE Sum[k - 1] + widths[k]
    IN  Sum[Len(widths)]

\* make_pdf_bytes has returned a table whose estimated widths did not fit
WidthsScaled == pc = "pdf_returned" /\ Total(pdf.col_widths) > AVAIL_WIDTH

\* C21 as stated: when the estimated widths sum to more than the available
\* width, the widths handed to the table sum exactly to the available
\* width and keep their ratios; otherwise they are the estimated widths;
\* so the table is never wider than the available width.
C21_ExactFit ==
    pc = "pdf_returned" =>
        LET est == pdf.col_widths
            out == pdf.colWidths
        IN  /\ IF Total(est) > AVAIL_WIDTH
               THEN /\ Total(out) = AVAIL_WIDTH
                    /\ \A i, j \in 1..Len(est) :
                          out[i] * (est[j] \div 256) = out[j] * (est[i] \div 256)
               ELSE out = est
            /\ Total(out) <= AVAIL_WIDTH

\* w * avail / total to the nearest tenth of a point
ExactShare(w, total) ==
    Pt(RoundHalfEven((w \div 256) * (AVAIL_WIDTH \div 256), total \div 256))

\* C21, amended: widths that fit are left unchanged; otherwise every width
\* is multiplied by the one factor avail / total in floating point: each
\* is w * avail / total up to the rounding of the division and of the
\* product, equal widths stay equal, a wider column stays at least as
\* wide, and the widths sum to the available width up to that rounding
\* (the sum can fall short of it or exceed it).
C21_FitUpToRounding ==
    pc = "pdf_returned" =>
        LET est == pdf.col_widths
            out == pdf.colWidths
            eps == Pow2(PdfSigBits - 2)
        IN  IF Total(est) > AVAIL_WIDTH
            THEN /\ Len(out) = Len(est)
                 /\ \A j \in 1..Len(est) :
                       /\ Abs(out[j] - ExactShare(est[j], Total(est))) <= Pt(1) + est[j] \div eps
                       /\ out[j] < est[j]
                 /\ \A i, j \in 1..Len(est) :
                       /\ est[i] = est[j] => out[i] = out[j]
                       /\ est[i] < est[j] => out[i] <= out[j]
                 /\ Abs(Total(out) - AVAIL_WIDTH) <= AVAIL_WIDTH \div eps
            ELSE out = est

\* widths of two sizes were scaled and no longer sum to the available width
C21_Witness ==
    /\ WidthsScaled
    /\ \E i, j \in 1..Len(pdf.col_widths) : pdf.col_widths[i] < pdf.col_widths[j]
    /\ Total(pdf.colWidths) # AVAIL_WIDTH

-----------------------------------------------------------------------------
(* C22 *)

\* the three tiers as the claim states them, by the number of columns
TierAsStated ==
    LET n == Len(df_display.cols)
    IN  /\ n >= 12 => pdf.max_col_width = Pt(1100) /\ pdf.font_size = 70
        /\ (9 <= n /\ n <= 11) => pdf.max_col_width = Pt(1250) /\ pdf.font_size = 75
        /\ n <= 8 => pdf.max_col_width = Pt(1500) /\ pdf.font_size = 80

\* the longest of the header and of lens, the lengths of the cells' strings
LongestOf(header, lens) ==
    CHOOSE m \in {Len(header)} \cup {lens[i] : i \in 1..Len(lens)} :
        \A i \in 1..Len(lens) : m >= lens[i] /\ m >= Len(header)

\* the lengths of the strings df[c].astype(str) holds
AstypeLens(j) ==
    [i \in 1..df_display.n |->
        astype_str_len(df_display.cols[j].dtype, df_display.cols[j].vals[i])]

\* C22: the cap and the font size are those of the three tiers by the
\* number of columns, and before scaling every column is as wide as the
\* longest string among its header and its cell values, 6.4 points a
\* character, the tier's cap at most.  The string of a cell value is the
\* one df[c].astype(str) gives ("nan", "NaT" or "None" for a missing
\* value, the date alone for a column of midnight timestamps).
C22_DensityPolicy ==
    pc = "pdf_returned" =>
        /\ TierAsStated
        /\ Len(pdf.col_widths) = Len(df_display.cols)
        /\ \A j \in 1..Len(df_display.cols) :
              LET w == LongestOf(df_display.cols[j].name, AstypeLens(j)) * Pt(64)
              IN  /\ pdf.col_widths[j] = IF w <= pdf.max_col_width THEN w ELSE pdf.max_col_width
                  /\ pdf.col_widths[j] <= pdf.max_col_width

\* a table of the middle tier was laid out: one column at the cap, one
\* below it, and the first column measured by a missing value
C22_Witness ==
    /\ pc = "pdf_returned"
    /\ Len(df_display.cols) \in 9..11
    /\ \E j \in 1..Len(pdf.col_widths) : pdf.col_widths[j] = Pt(1250)
    /\ \E j \in 1..Len(pdf.col_widths) : pdf.col_widths[j] < Pt(1250)
    /\ df_display.n > 0 /\ isna(df_display.cols[1].vals[1])
    /\ pdf.col_widths[1] = 4 * Pt(64)

-----------------------------------------------------------------------------
(* _first_existing (app.py), the resolver of the logo and font files,      *)
(* called on its own.  arg is the call's world: paths, the candidate list, *)
(* and fs, what the file system holds at each candidate: nothing           *)
(* ("absent"), a directory ("dir"), a file of size 0 ("empty") or a file   *)
(* with content ("file").  result holds the values returned so far.        *)
(* pc: "fe_call" -> "fe_returned" -> "fe_again" (a second call).           *)

LOGO_CANDIDATES == <<"logo.png">>

WIDE_LOGO_CANDIDATES == <<"logo_wide.png", "logo_wide.jpg", "logo_wide.jpeg">>

AR_FONT_CANDIDATES == <<"Cairo-Regular.ttf", "Amiri-Regular.ttf", "DejaVuSans.ttf">>

FileKinds == {"absent", "dir", "empty", "file"}

\* pth.exists() and pth.is_file() and pth.stat().st_size > 0
qualifies(fs, p) ==
    /\ fs[p] # "absent"
    /\ fs[p] \in {"empty", "file"}
    /\ fs[p] = "file"

\* variant: the size of the file is not looked at
_first_existing_any_size(paths, fs) ==
    LET from[k \in 1..(Len(paths) + 1)] ==
            IF k > Len(paths) THEN "None"
            ELSE IF fs[paths[k]] \in {"empty", "file"} THEN paths[k]
            ELSE from[k + 1]
    IN  from[1]

\* the loop over the candidates: the first that qualifies is returned,
\* None after the last
_first_existing(paths, fs) ==
    LET from[k \in 1..(Len(paths) + 1)] ==
            IF k > Len(paths) THEN "None"
            ELSE IF qualifies(fs, paths[k]) THEN paths[k]
            ELSE from[k + 1]
    IN  from[1]

RangeOf(s) == {s[k] : k \in 1..Len(s)}

InitAssets ==
    /\ \E paths \in {LOGO_CANDIDATES, WIDE_LOGO_CANDIDATES, AR_FONT_CANDIDATES} :
         \E fs \in [RangeOf(paths) -> FileKinds] :
            arg = [paths |-> paths, fs |-> fs]
    /\ result = <<>>
    /\ pc = "fe_call"
    /\ df = NoTable
    /\ df_display = NoTable
    /\ engine = "unset"
    /\ wide_logo = FALSE
    /\ r0 = -1
    /\ ws = EmptySheet
    /\ table = NoRange
    /\ xlsx_bytes = "unset"
    /\ pdf = NoPdf
    /\ pdf_bytes = "unset"
    /\ offered = {}
    /\ csv = <<>>

\* _first_existing(paths)
FirstExisting ==
    /\ pc = "fe_call"
    /\ result' = <<_first_existing(arg.paths, arg.fs)>>
    /\ pc' = "fe_returned"
    /\ UNCHANGED <<df, df_display, engine, wide_logo, r0, ws, table, xlsx_bytes, pdf,
                   pdf_bytes, offered, csv, arg>>

\* _first_existing(paths) once more
FirstExistingAgain ==
    /\ pc = "fe_returned"
    /\ result' = Append(result, _first_existing(arg.paths, arg.fs))
    /\ pc' = "fe_again"
    /\ UNCHANGED <<df, df_display, engine, wide_logo, r0, ws, table, xlsx_bytes, pdf,
                   pdf_bytes, offered, csv, arg>>

NextAssets ==
    \/ FirstExisting
    \/ FirstExistingAgain

SpecAssets == InitAssets /\ [][NextAssets]_vars

\* what the claim asks of one returned value
FirstQualifying(r) ==
    LET paths == arg.paths
        good(k) == arg.fs[paths[k]] = "file"
    IN  /\ (r = "None") = (\A k \in 1..Len(paths) : ~good(k))
        /\ r # "None" =>
              \E k \in 1..Len(paths) :
                 /\ r = paths[k]
                 /\ good(k)
                 /\ \A q \in 1..(k - 1) : ~good(q)

\* C23: the resolver returns the first candidate, in the order of the
\* list, that exists, is a regular file and is not empty, and none when no
\* candidate is one; no later candidate is returned when an earlier one
\* qualifies; a call leaves the file system as it was, and a second call
\* on it returns what the first returned.
C23_FirstQualifyingCandidate ==
    /\ [](pc \in {"fe_returned", "fe_again"} => FirstQualifying(result[1]))
    /\ [](pc = "fe_again" => result[2] = result[1])
    /\ [][arg' = arg]_vars

\* two calls returned the second candidate: the first is an empty file or
\* a directory, and a later candidate qualifies as well
C23_Witness ==
    /\ pc = "fe_again"
    /\ Len(arg.paths) = 3
    /\ arg.fs[arg.paths[1]] \in {"empty", "dir"}
    /\ arg.fs[arg.paths[2]] = "file"
    /\ arg.fs[arg.paths[3]] = "file"
    /\ result = <<arg.paths[2], arg.paths[2]>>

-----------------------------------------------------------------------------
(* main (app.py) from its first line to the fetch of the data.  arg holds  *)
(* the connection and what the sidebar and the filters of the main area    *)
(* returned in this run ("unset" before the line that assigns it, "None"   *)
(* for Python's None, selected_suppliers the set of the names chosen);     *)
(* result what the call of the fetch function gave.                        *)
(* pc:                                                                     *)
(*   "main"          get_db_connection() is to be called                   *)
(*   "conn_error"    st.error told that the connection failed; main        *)
(*                   returned                                              *)
(*   "sidebar"       the four dropdowns of the sidebar are to be built     *)
(*   "select_info"   st.info asked for a company, a project and a data     *)
(*                   type; main returned                                   *)
(*   "main_filters"  the date range and the supplier filter are to be built*)
(*   "fetch"         the fetch function is to be called                    *)
(*   "fetch_raised"  the call raised and the exception left main           *)
(*   "fetched"       the call returned a table                             *)

Companies == {"company_1", "company_2"}

Projects == {"project_1", "project_2"}

\* "الكل" (all), the first option of the raw material dropdown
ALL_MATERIALS == "ALL"

Materials == {"material_1"}

SupplierNames == {"supplier_1", "supplier_2"}

Days == {"day_1", "day_2"}

NoRun ==
    [conn |-> "unset", company_name |-> "unset", project_name |-> "unset",
     raw_material |-> "unset", type_key |-> "unset", date_from |-> "unset",
     date_to |-> "unset", selected_suppliers |-> {}]

\* create_type_dropdown: the keys of display_to_key
TypeKeys == {"financial_report"}

\* the parameters of fetch_financial_report and of fetch_invoices_data
\* (db/connection.py); the first three have no default
fetch_financial_report_params ==
    <<"supabase", "company_name", "project_name", "date_from", "date_to", "raw_material">>

fetch_invoices_data_params ==
    <<"supabase", "company_name", "project_name", "date_from", "date_to", "raw_material">>

\* the positional arguments of main's call of the fetch function
fetch_arguments(run) ==
    <<run.conn, run.company_name, run.project_name, run.date_from, run.date_to,
      IF run.raw_material # ALL_MATERIALS THEN run.raw_material ELSE "None",
      IF run.selected_suppliers # {} THEN run.selected_suppliers ELSE "None">>

\* Python binds positional arguments to the parameters in order; more
\* arguments than parameters is a TypeError
binds(params, args) == Len(args) <= Len(params)

InitMain ==
    /\ arg = NoRun
    /\ result = <<>>
    /\ pc = "main"
    /\ df = NoTable
    /\ df_display = NoTable
    /\ engine = "unset"
    /\ wide_logo = FALSE
    /\ r0 = -1
    /\ ws = EmptySheet
    /\ table = NoRange
    /\ xlsx_bytes = "unset"
    /\ pdf = NoPdf
    /\ pdf_bytes = "unset"
    /\ offered = {}
    /\ csv = <<>>

\* conn = get_db_connection(); if conn is None: st.error(...); return
GetConnection ==
    /\ pc = "main"
    /\ \E conn \in {"None", "client"} :
         /\ arg' = [arg EXCEPT !.conn = conn]
         /\ pc' = IF conn = "None" THEN "conn_error" ELSE "sidebar"
    /\ UNCHANGED <<df, df_display, engine, wide_logo, r0, ws, table, xlsx_bytes, pdf,
                   pdf_bytes, offered, csv, result>>

\* the sidebar: create_company_dropdown, create_project_dropdown (None
\* without a company), create_raw_material_dropdown, create_type_dropdown;
\* then the test of the three selections
Sidebar ==
    /\ pc = "sidebar"
    /\ \E company_name \in Companies \cup {"None"},
          project \in Projects \cup {"None"},
          raw_material \in Materials \cup {ALL_MATERIALS, "None"},
          type_key \in TypeKeys :
         LET project_name == IF company_name = "None" THEN "None" ELSE project
         IN  /\ arg' = [arg EXCEPT !.company_name = company_name,
                                   !.project_name = project_name,
                                   !.raw_material = raw_material,
                                   !.type_key = type_key]
             /\ pc' = IF company_name = "None" \/ project_name = "None" \/ type_key = "None"
                      THEN "select_info"
                      ELSE "main_filters"
    /\ UNCHANGED <<df, df_display, engine, wide_logo, r0, ws, table, xlsx_bytes, pdf,
                   pdf_bytes, offered, csv, result>>

\* create_date_range() and create_supplier_multiselect(...)
MainFilters ==
    /\ pc = "main_filters"
    /\ \E date_from \in Days \cup {"None"}, date_to \in Days \cup {"None"},
          selected_suppliers \in SUBSET SupplierNames :
         arg' = [arg EXCEPT !.date_from = date_from, !.date_to = date_to,
                            !.selected_suppliers = selected_suppliers]
    /\ pc' = "fetch"
    /\ UNCHANGED <<df, df_display, engine, wide_logo, r0, ws, table, xlsx_bytes, pdf,
                   pdf_bytes, offered, csv, result>>

\* df = fetch_financial_report(conn, company_name, project_name, date_from,
\* date_to, raw_material or None, selected_suppliers or None), or
\* fetch_invoices_data with the same arguments: seven arguments for six
\* parameters, a TypeError before the function's own try block is entered
Fetch ==
    /\ pc = "fetch"
    /\ LET params == IF arg.type_key = "financial_report"
                     THEN fetch_financial_report_params
                     ELSE fetch_invoices_data_params
       IN  IF binds(params, fetch_arguments(arg))
           THEN /\ pc' = "fetched"
                /\ result' = <<"table">>
           ELSE /\ pc' = "fetch_raised"
                /\ result' = <<"TypeError">>
    /\ UNCHANGED <<df, df_display, engine, wide_logo, r0, ws, table, xlsx_bytes, pdf,
                   pdf_bytes, offered, csv, arg>>

NextMain ==
    \/ GetConnection
    \/ Sidebar
    \/ MainFilters
    \/ Fetch

SpecMain == InitMain /\ [][NextMain]_vars

\* C24: with a working connection and a company, a project and a data type
\* selected, a run of main ends with the no-matching-data warning, with the
\* no-search-results notice or with the table and the export stage, never
\* with an unhandled error.
C24_EndsInOneOutcome ==
    (/\ arg.conn = "client"
     /\ arg.company_name \in Companies
     /\ arg.project_name \in Projects
     /\ arg.type_key \in TypeKeys)
        => pc \notin {"fetch_raised", "conn_error", "select_info"}

-----------------------------------------------------------------------------
(* main's preparation of the displayed table ("Remove ID columns for       *)
(* display" through the column reorder) on fetched tables of up to         *)
(* DisplayCols columns, with columns that hold no value at all.            *)

\* a column of missing values only
P_NONE == [dtype |-> "object", base |-> <<Null>>]

\* "ID"
COL_ID == <<"I", "D">>

DisplayNames == ColNames \cup {COL_ID}

DisplayChoices == {[name |-> nm, pat |-> pt] : nm \in DisplayNames, pt \in {P_NUM, P_NONE}}

InitDisplay ==
    /\ \E n \in 0..MaxRows, k \in 1..DisplayCols :
         \E cs \in [1..k -> DisplayChoices] :
            /\ \A a, b \in 1..k : a # b => cs[a].name # cs[b].name
            /\ df = [n |-> n, cols |-> [j \in 1..k |-> MkCol(cs[j], n)]]
    /\ df_display = NoTable
    /\ pc = "display"
    /\ engine = "unset"
    /\ wide_logo = FALSE
    /\ r0 = -1
    /\ ws = EmptySheet
    /\ table = NoRange
    /\ xlsx_bytes = "unset"
    /\ pdf = NoPdf
    /\ pdf_bytes = "unset"
    /\ offered = {}
    /\ csv = <<>>
    /\ arg = <<>>
    /\ result = <<>>

NextDisplay == PrepareDisplay

SpecDisplay == InitDisplay /\ [][NextDisplay]_vars

\* the place of a name in desired_order, 0 for a name that is not in it
DesiredRank(nm) ==
    IF \E k \in 1..Len(desired_order) : desired_order[k] = nm
    THEN CHOOSE k \in 1..Len(desired_order) : desired_order[k] = nm
    ELSE 0

\* the place of the column named nm in the fetched table
FetchedPlace(nm) == CHOOSE j \in 1..Len(df.cols) : df.cols[j].name = nm

\* the name has an "i" or "I" followed by a "d" or "D"
NameHasId(nm) ==
    \E k \in 1..(Len(nm) - 1) : nm[k] \in {"i", "I"} /\ nm[k + 1] \in {"d", "D"}

\* C25: the displayed table has no column whose name contains "id" in any
\* letter case and no column whose values are all null; its columns are
\* the other columns of the fetched table, each once and as fetched; the
\* columns named in the desired order come first, in that order, and the
\* others follow in the order they had in the fetched table.
C25_DisplayedColumns ==
    pc = "excel" =>
        LET out == df_display.cols
            kept == {j \in 1..Len(df.cols) :
                        ~NameHasId(df.cols[j].name) /\ ~AllNull(df.cols[j])}
        IN  /\ df_display.n = df.n
            /\ \A a \in 1..Len(out) : ~NameHasId(out[a].name) /\ ~AllNull(out[a])
            /\ \A a \in 1..Len(out) : \E j \in kept : out[a] = df.cols[j]
            /\ \A j \in kept : \E a \in 1..Len(out) : out[a] = df.cols[j]
            /\ \A a, b \in 1..Len(out) : a # b => out[a].name # out[b].name
            /\ \A a, b \in 1..Len(out) :
                  a < b =>
                     LET ra == DesiredRank(out[a].name)
                         rb == DesiredRank(out[b].name)
                     IN  /\ rb > 0 => (ra > 0 /\ ra < rb)
                         /\ (ra = 0 /\ rb = 0) =>
                               FetchedPlace(out[a].name) < FetchedPlace(out[b].name)

\* a fetched table with rows, an "ID" column, a column without values and
\* a desired column fetched after another column was prepared: two columns
\* are left and the desired one has moved to the front
C25_Witness ==
    /\ pc = "excel"
    /\ df.n > 0
    /\ Len(df.cols) = 4
    /\ \E j \in 1..4 : df.cols[j].name = COL_ID
    /\ \E j \in 1..4 : AllNull(df.cols[j]) /\ ~NameHasId(df.cols[j].name)
    /\ Len(df_display.cols) = 2
    /\ df_display.cols[1].name = COL_AMOUNT
    /\ df_display.cols[2].name = COL_DUE_DATE
    /\ FetchedPlace(COL_DUE_DATE) < FetchedPlace(COL_AMOUNT)

-----------------------------------------------------------------------------
(* fetch_financial_report and fetch_invoices_data (db/connection.py),      *)
(* called on their own.  arg is the call's world: table, the rows the data *)
(* store holds for the company and the project (an amount that numbers the *)
(* row, a supplier_id and, if the store has the column, an invoice date as *)
(* the JSON gives it: a date string, another string or null); suppliers,   *)
(* the raw material of each supplier; suppliers_query, whether the query   *)
(* of the suppliers table succeeds; and the arguments date_from, date_to   *)
(* (Null for None) and raw_material ("None" for None).  result is what    *)
(* the queries for the company and the project gave (lookup) and the table *)
(* returned (df).  pc: "fetch_call" -> "ffr_returned" or "fid_returned".   *)

SupplierIds == {1, 2}

FetchMaterials == {"material_1", "material_2"}

\* "مواد اوليه" (raw material)
COL_RAW_MATERIAL == desired_order[1]

\* pd.to_datetime(value, errors="coerce"): NaT for null and for a string
\* that is not a date
to_datetime(v) ==
    IF v.t = "date" THEN v
    ELSE IF v.t = "str" /\ \E d \in 0..9 : v.s = DateChars(d)
    THEN Date(CHOOSE d \in 0..9 : v.s = DateChars(d))
    ELSE Null

\* df[mask]: the rows i with mask[i], in their order
select_rows(t, mask) ==
    LET idx == SelectSeq([i \in 1..t.n |-> i], LAMBDA i : mask[i])
    IN  [n |-> Len(idx),
         cols |-> [j \in 1..Len(t.cols) |->
                     [t.cols[j] EXCEPT !.vals = [k \in 1..Len(idx) |-> t.cols[j].vals[idx[k]]]]]]

\* df[c] = pd.to_datetime(df[c], errors="coerce")
with_datetime(t, c) ==
    [n |-> t.n,
     cols |-> [j \in 1..Len(t.cols) |->
                 IF t.cols[j].name = c
                 THEN [name |-> c, dtype |-> "datetime",
                       vals |-> [i \in 1..t.n |-> to_datetime(t.cols[j].vals[i])]]
                 ELSE t.cols[j]]]

\* variant: the upper bound leaves its own day out
date_filter_open_end(t, date_from, date_to) ==
    IF (date_from # Null \/ date_to # Null) /\ HasName(t.cols, COL_INVOICE_DATE)
    THEN LET t1 == with_datetime(t, COL_INVOICE_DATE)
             d1 == ColNamed(t1.cols, COL_INVOICE_DATE).vals
             t2 == IF date_from # Null
                   THEN select_rows(t1, [i \in 1..t1.n |-> d1[i].t = "date" /\ d1[i].n >= date_from.n])
                   ELSE t1
             d2 == ColNamed(t2.cols, COL_INVOICE_DATE).vals
         IN  IF date_to # Null
             THEN select_rows(t2, [i \in 1..t2.n |-> d2[i].t = "date" /\ d2[i].n < date_to.n])
             ELSE t2
    ELSE t

\* "Apply date filters": a comparison with NaT is False
date_filter(t, date_from, date_to) ==
    IF (date_from # Null \/ date_to # Null) /\ HasName(t.cols, COL_INVOICE_DATE)
    THEN LET t1 == with_datetime(t, COL_INVOICE_DATE)
             d1 == ColNamed(t1.cols, COL_INVOICE_DATE).vals
             t2 == IF date_from # Null
                   THEN select_rows(t1, [i \in 1..t1.n |-> d1[i].t = "date" /\ d1[i].n >= date_from.n])
                   ELSE t1
             d2 == ColNamed(t2.cols, COL_INVOICE_DATE).vals
         IN  IF date_to # Null
             THEN select_rows(t2, [i \in 1..t2.n |-> d2[i].t = "date" /\ d2[i].n <= date_to.n])
             ELSE t2
    ELSE t

\* fetch_suppliers_by_raw_material: the ids of the suppliers of the raw
\* material; an empty table when the query raises
fetch_suppliers_by_raw_material(world, raw_material) ==
    IF world.suppliers_query = "raises" THEN {}
    ELSE {sid \in SupplierIds : world.suppliers[sid] = raw_material}

\* "Apply raw material filter if provided" of fetch_financial_report
raw_material_filter(world, t, raw_material) ==
    IF raw_material # "None"
    THEN LET supplier_ids == fetch_suppliers_by_raw_material(world, raw_material)
             sid == ColNamed(t.cols, COL_SUPPLIER_ID).vals
         IN  IF supplier_ids # {}
             THEN select_rows(t, [i \in 1..t.n |-> sid[i].n \in supplier_ids])
             ELSE t
    ELSE t

\* fetch_financial_report.  lookup: what the queries for the company and
\* the project gave ("found", "no_company", "no_project", "raises"); every
\* outcome but "found" returns an empty DataFrame
fetch_financial_report(world, lookup) ==
    IF lookup # "found" \/ world.table.n = 0 THEN NoTable
    ELSE raw_material_filter(world,
                             date_filter(world.table, world.date_from, world.date_to),
                             world.raw_material)

\* the rows of the invoices query after "Flatten nested columns": the
\* joined supplier's raw material is a column of the table
flatten(world) ==
    LET t == world.table
        sid == ColNamed(t.cols, COL_SUPPLIER_ID).vals
    IN  [n |-> t.n,
         cols |-> Append(t.cols,
                         [name |-> COL_RAW_MATERIAL, dtype |-> "object",
                          vals |-> [i \in 1..t.n |-> Str(<<world.suppliers[sid[i].n]>>)]])]

\* fetch_invoices_data
fetch_invoices_data(world, lookup) ==
    IF lookup # "found" \/ world.table.n = 0 THEN NoTable
    ELSE LET t == date_filter(flatten(world), world.date_from, world.date_to)
             mat == ColNamed(t.cols, COL_RAW_MATERIAL).vals
         IN  IF world.raw_material # "None"
             THEN select_rows(t, [i \in 1..t.n |-> mat[i] = Str(<<world.raw_material>>)])
             ELSE t

\* the invoice dates of the store: days 1 to 3, a string that is no date,
\* null
StoredDates == {Str(DateChars(1)), Str(DateChars(2)), Str(DateChars(3)), Str(S_ABC), Null}

\* pd.DataFrame(resp.data or []): no rows, no columns
StoredTable(n, dates, sids, has_date) ==
    IF n = 0 THEN NoTable
    ELSE
    [n |-> n,
     cols |-> <<[name |-> COL_AMOUNT, dtype |-> "numeric", vals |-> [i \in 1..n |-> Num(1000 * i)]],
                [name |-> COL_SUPPLIER_ID, dtype |-> "numeric", vals |-> [i \in 1..n |-> Num(sids[i])]]>>
             \o (IF has_date
                 THEN <<[name |-> COL_INVOICE_DATE, dtype |-> "object", vals |-> dates]>>
                 ELSE <<>>)]

InitFetch ==
    /\ \E n \in 0..FetchRows :
         \E dates \in [1..n -> StoredDates], sids \in [1..n -> SupplierIds],
            has_date \in BOOLEAN, m1 \in FetchMaterials,
            q \in {"ok", "raises"},
            date_from \in {Null, Date(2)}, date_to \in {Null, Date(2)},
            raw_material \in FetchMaterials \cup {"None"} :
            /\ has_date \/ \A i \in 1..n : dates[i] = Null
            /\ arg = [table |-> StoredTable(n, dates, sids, has_date),
                      suppliers |-> [sid \in SupplierIds |-> IF sid = 1 THEN m1 ELSE "material_1"],
                      suppliers_query |-> q,
                      date_from |-> date_from, date_to |-> date_to,
                      raw_material |-> raw_material]
    /\ result = <<>>
    /\ pc = "fetch_call"
    /\ df = NoTable
    /\ df_display = NoTable
    /\ engine = "unset"
    /\ wide_logo = FALSE
    /\ r0 = -1
    /\ ws = EmptySheet
    /\ table = NoRange
    /\ xlsx_bytes = "unset"
    /\ pdf = NoPdf
    /\ pdf_bytes = "unset"
    /\ offered = {}
    /\ csv = <<>>

Lookups == {"found", "no_company", "no_project", "raises"}

\* fetch_financial_report(supabase, company_name, project_name, date_from,
\* date_to, raw_material)
FetchFinancialReport ==
    /\ pc = "fetch_call"
    /\ \E lookup \in Lookups :
         result' = [lookup |-> lookup, df |-> fetch_financial_report(arg, lookup)]
    /\ pc' = "ffr_returned"
    /\ UNCHANGED <<df, df_display, engine, wide_logo, r0, ws, table, xlsx_bytes, pdf,
                   pdf_bytes, offered, csv, arg>>

\* fetch_invoices_data(supabase, company_name, project_name, date_from,
\* date_to, raw_material)
FetchInvoicesData ==
    /\ pc = "fetch_call"
    /\ \E lookup \in Lookups :
         result' = [lookup |-> lookup, df |-> fetch_invoices_data(arg, lookup)]
    /\ pc' = "fid_returned"
    /\ UNCHANGED <<df, df_display, engine, wide_logo, r0, ws, table, xlsx_bytes, pdf,
                   pdf_bytes, offered, csv, arg>>

NextFetch ==
    \/ FetchFinancialReport
    \/ FetchInvoicesData

SpecFetch == InitFetch /\ [][NextFetch]_vars

\* the supplier of row i of the returned table
ReturnedSupplier(i) == ColNamed(result.df.cols, COL_SUPPLIER_ID).vals[i].n

\* the row of the store that row i of the returned table is
StoredRow(i) == ColNamed(result.df.cols, COL_AMOUNT).vals[i].n \div 1000

\* row r of the store is among the returned rows
Returned(r) == \E i \in 1..result.df.n : StoredRow(i) = r

\* C26: when fetch_financial_report is given a raw material, every row it
\* returns is of a supplier of that raw material; when it is given none,
\* no row is dropped on account of its supplier.
C26_RowsOfTheMaterial ==
    pc = "ffr_returned" =>
        /\ arg.raw_material # "None" =>
              \A i \in 1..result.df.n : arg.suppliers[ReturnedSupplier(i)] = arg.raw_material
        /\ (arg.raw_material = "None" /\ result.lookup = "found") =>
              result.df = date_filter(arg.table, arg.date_from, arg.date_to)

\* the invoice date of row r as the store holds it
StoredDate(r) == ColNamed(arg.table.cols, COL_INVOICE_DATE).vals[r]

\* d is a date within the bounds given
WithinBounds(d) ==
    /\ d.t = "date"
    /\ arg.date_from # Null => arg.date_from.n <= d.n
    /\ arg.date_to # Null => d.n <= arg.date_to.n

\* row r of the store passes the call's raw-material filter: none was
\* asked for, or the function did not drop the row for it
PassesMaterial(r) ==
    \/ arg.raw_material = "None"
    \/ arg.suppliers[ColNamed(arg.table.cols, COL_SUPPLIER_ID).vals[r].n] = arg.raw_material
    \/ pc = "ffr_returned" /\ fetch_suppliers_by_raw_material(arg, arg.raw_material) = {}

\* C27: in both fetch functions, when a bound is given and the store has
\* the invoice-date column, every returned row has an invoice date d with
\* from <= d and d <= to for each bound given, so a row whose date is
\* missing or is no date is not returned, and a row dated on a bound itself
\* is not dropped for its date; when no bound is given no row is dropped
\* for its date; the returned rows are in the order of the store.
C27_InclusiveDateBounds ==
    pc \in {"ffr_returned", "fid_returned"} =>
        LET out == result.df
            bounded == arg.date_from # Null \/ arg.date_to # Null
            has_date == HasName(arg.table.cols, COL_INVOICE_DATE)
        IN  /\ (bounded /\ has_date) =>
                  \A i \in 1..out.n :
                     /\ WithinBounds(ColNamed(out.cols, COL_INVOICE_DATE).vals[i])
                     /\ StoredDate(StoredRow(i)) \notin {Null, Str(S_ABC)}
            /\ (bounded /\ has_date /\ result.lookup = "found") =>
                  \A r \in 1..arg.table.n :
                     (WithinBounds(to_datetime(StoredDate(r))) /\ PassesMaterial(r)) => Returned(r)
            /\ (~bounded /\ result.lookup = "found") =>
                  \A r \in 1..arg.table.n : PassesMaterial(r) => Returned(r)
            /\ \A i, k \in 1..out.n : i < k => StoredRow(i) < StoredRow(k)
            /\ \A i \in 1..out.n : StoredRow(i) \in 1..arg.table.n

\* both bounds were given: of two stored rows the one dated on the bounds'
\* own day was returned and the one without a readable date was not
C27_Witness ==
    /\ pc \in {"ffr_returned", "fid_returned"}
    /\ arg.date_from = Date(2) /\ arg.date_to = Date(2)
    /\ arg.table.n = 2
    /\ HasName(arg.table.cols, COL_INVOICE_DATE)
    /\ StoredDate(1) \in {Null, Str(S_ABC)}
    /\ StoredDate(2) = Str(DateChars(2))
    /\ result.df.n = 1
    /\ StoredRow(1) = 2
    /\ ColNamed(result.df.cols, COL_INVOICE_DATE).vals[1] = Date(2)

====
